---------------------------- MODULE Spec2Model ----------------------------
(***************************************************************************)
(* Model of the tree-layout-and-camera engine of the treehouse syntax-tree *)
(* viewer (components/TreeView.tsx, kept as src/unnamed/part_004), with    *)
(* the parts of its owner (App, src/unnamed/part_001) and of the editor    *)
(* extension (src/unnamed/part_002) that feed it.                          *)
(*                                                                         *)
(* Numbers.  The program computes with IEEE doubles.  The model computes   *)
(* with exact rationals <<n, d>> (d > 0, lowest terms), i.e. it describes  *)
(* the arithmetic the code is written for and leaves rounding out.  The   *)
(* non-finite values a division by zero yields in the program are kept:    *)
(* <<1, 0>> is Infinity, <<-1, 0>> is -Infinity and <<0, 0>> is NaN.  The  *)
(* sign of zero is not modelled.                                           *)
(*                                                                         *)
(* Paths.  The program names a layout node by the string 'root-i-j-...'.   *)
(* The model writes that path as the sequence <<i, j, ...>> of child       *)
(* indexes; 'root' is <<>> and `${path}-${i}` is Append(path, i).          *)
(***************************************************************************)
EXTENDS Integers, Sequences, FiniteSets, TLC

VARIABLES
    ast,            \* the AstNode tree handed to TreeView (prop ast)
    expandedNodes,  \* prop expandedNodes: the set of expanded paths
    cursorNodePath, \* prop cursorNodePath (NoNode for null)
    allNodes,       \* useMemo result: collectNodes(root) after layoutTree
    camera,         \* state camera = cameraRef.current: [x, y, zoom]
    size,           \* state size: [width, height]
    dragRef,        \* dragRef.current
    pinchRef,       \* pinchRef.current
    hoveredRef,     \* hoveredRef.current (NoNode for null)
    prevAstRootRef, \* prevAstRootRef.current
    prevSizeRef,    \* prevSizeRef.current
    fingers,        \* environment: the number of fingers on the canvas
    emitted,        \* the callbacks the last handler invoked, in order
    last,           \* history: the last handler, its input and the camera before it
    steps,          \* the number of events handled so far
    call,           \* history: the latest direct call of a function of the
                    \* owner (App) or of the editor extension, with its result
    decorations,    \* the value of the editor's highlightField: the sequence
                    \* of the highlighted ranges [from, to]
    isAllExpanded,  \* App state isAllExpanded
    snap,           \* App state astSnap, the prop snap of BottomSheet
    currentHeight,  \* BottomSheet state currentHeight, a rational
    isDragging,     \* BottomSheet state isDragging
    dragState,      \* BottomSheet dragState.current (NoDrag for null)
    windowHeight,   \* BottomSheet state windowHeight
    now,            \* the clock, in milliseconds
    timers,         \* the timeouts set and neither run nor cleared
    cursorDebounceRef,  \* the id of the last timeout set, 0 for null
    notified,       \* history: the calls of handleCursorChange, in order
    lookups,        \* history: the timeouts that ran, in order
    code,           \* the text in the editor
    language,       \* the language selected
    languages,      \* the keys of parser.languages: the grammars loaded
    parsing,        \* the calls of parser.parse that await a grammar
    parseResult,    \* the (code, language) of the result displayed
    parser,         \* TreeSitterParser.parser is set (not null)
    initPromise,    \* TreeSitterParser.initPromise: "null" or the promise's state
    performed,      \* history: the calls of Parser.init and of new Parser()
    callers,        \* history: what each call of init() returned
    parses          \* the calls of parser.parse, with their results

\* The debouncing of the cursor.
debounceVars == <<now, timers, cursorDebounceRef, notified, lookups>>

\* The state outside TreeView.
\* The parsing.
parseVars == <<code, language, languages, parsing, parseResult>>

\* The parser singleton.
parserVars == <<parser, initPromise, performed, callers, parses>>

\* The bottom sheet.
sheetVars == <<snap, currentHeight, isDragging, dragState, windowHeight>>

appVars == <<call, decorations, isAllExpanded, sheetVars, debounceVars, parseVars,
             parserVars>>

vars == <<ast, expandedNodes, cursorNodePath, allNodes, camera, size, dragRef,
          pinchRef, hoveredRef, prevAstRootRef, prevSizeRef, fingers, emitted,
          last, steps, appVars>>

-----------------------------------------------------------------------------
(* Exact rational arithmetic standing for the program's number type.       *)

RECURSIVE GCD(_, _)
GCD(a, b) == IF b = 0 THEN a ELSE GCD(b, a % b)

Abs(n) == IF n < 0 THEN -n ELSE n

Sign(n) == IF n < 0 THEN -1 ELSE IF n > 0 THEN 1 ELSE 0

\* <<1, 0>> is Infinity, <<-1, 0>> is -Infinity and <<0, 0>> is NaN.
RNorm(n, d) ==
    IF d = 0 THEN <<Sign(n), 0>>
    ELSE LET s == IF d < 0 THEN -1 ELSE 1
             g == GCD(Abs(n), Abs(d))
         IN  <<(s * n) \div g, (s * d) \div g>>

R(n) == <<n, 1>>
NaN == <<0, 0>>
RNeg(a) == <<-a[1], a[2]>>

\* Infinity + -Infinity is NaN; otherwise an infinite operand wins.
RAdd(a, b) ==
    IF a[2] = 0 \/ b[2] = 0
    THEN IF a = NaN \/ b = NaN THEN NaN
         ELSE IF a[2] = 0 /\ b[2] = 0 THEN (IF a = b THEN a ELSE NaN)
         ELSE IF a[2] = 0 THEN a ELSE b
    ELSE LET g == GCD(a[2], b[2])
         IN  RNorm(a[1] * (b[2] \div g) + b[1] * (a[2] \div g), (a[2] \div g) * b[2])

RSub(a, b) == RAdd(a, RNeg(b))

\* 0 * Infinity is NaN.  The factors are cancelled crosswise before they are
\* multiplied.
RMul(a, b) ==
    IF a[2] = 0 \/ b[2] = 0 THEN <<Sign(a[1]) * Sign(b[1]), 0>>
    ELSE LET g1 == GCD(Abs(a[1]), b[2])
             g2 == GCD(Abs(b[1]), a[2])
         IN  RNorm((a[1] \div g1) * (b[1] \div g2), (a[2] \div g2) * (b[2] \div g1))

\* 1 / b: 1 / 0 is Infinity, 1 / Infinity is 0.
RInv(b) ==
    IF b[1] = 0 THEN (IF b[2] = 0 THEN NaN ELSE <<1, 0>>)
    ELSE IF b[2] = 0 THEN <<0, 1>>
    ELSE IF b[1] < 0 THEN <<-b[2], -b[1]>> ELSE <<b[2], b[1]>>

RDiv(a, b) == RMul(a, RInv(b))

IsFinite(a) == a[2] # 0
\* Comparisons with NaN are false; -Infinity < Infinity.
RLt(a, b) ==
    IF a[2] = 0 /\ b[2] = 0 THEN a[1] < 0 /\ b[1] > 0
    ELSE a[1] * b[2] < b[1] * a[2]
RLe(a, b) == a # NaN /\ b # NaN /\ (a = b \/ RLt(a, b))
\* Math.min and Math.max: NaN if either argument is NaN.
RMin(a, b) == IF a = NaN \/ b = NaN THEN NaN ELSE IF RLt(b, a) THEN b ELSE a
RMax(a, b) == IF a = NaN \/ b = NaN THEN NaN ELSE IF RLt(a, b) THEN b ELSE a

-----------------------------------------------------------------------------
(* Program constants.                                                      *)

NODE_H == 32
NODE_PADDING_X == 14
NODE_GAP_X == 24
NODE_GAP_Y == 52
MIN_NODE_W == 60

(* Bounds of the model. *)
MaxNodes == 6           \* AST nodes per tree
BadgeTextWidth == 28    \* measureText(' +99'), a property of the font
WidthPeriod == 3        \* label widths repeat with this period in document order
TextWidths == {20, 152} \* measureText(label) of a node, a property of the font

NoNode == <<-1>>       \* null where a LayoutNode reference is expected

-----------------------------------------------------------------------------
(* The AstNode trees.  Nodes are numbered 1..n in document (pre-)order,     *)
(* node 1 is the root; children[a] is node a's ordered children array.     *)

\* The nodes on the path from node a up to the root, for a parent list par
\* (par[j - 1] is the parent of node j).
RECURSIVE RightSpine(_, _)
RightSpine(par, a) == IF a = 1 THEN {1} ELSE {a} \cup RightSpine(par, par[a - 1])

\* Parent lists of all ordered trees with n nodes numbered in pre-order.
RECURSIVE ParentLists(_)
ParentLists(n) ==
    IF n = 1 THEN {<<>>}
    ELSE UNION { { Append(t, a) : a \in RightSpine(t, n - 1) } : t \in ParentLists(n - 1) }

RECURSIVE SetToSortedSeq(_)
SetToSortedSeq(S) ==
    IF S = {} THEN <<>>
    ELSE LET m == CHOOSE m \in S : \A o \in S : m <= o
         IN  <<m>> \o SetToSortedSeq(S \ {m})

\* kind is the root's kind; textWidth[a] is the measured width of a's label.
AstOf(par, tw) ==
    [ kind      |-> "program",
      children  |-> [a \in 1..(Len(par) + 1) |->
                        SetToSortedSeq({j \in 2..(Len(par) + 1) : par[j - 1] = a})],
      textWidth |-> tw ]

\* The label widths of n nodes: a pattern of WidthPeriod widths, repeated.
LabelWidths(n) ==
    { [a \in 1..n |-> pat[((a - 1) % WidthPeriod) + 1]] :
          pat \in [1..WidthPeriod -> TextWidths] }

Asts ==
    UNION { { AstOf(par, tw) : par \in ParentLists(n), tw \in LabelWidths(n) }
            : n \in 1..MaxNodes }

-----------------------------------------------------------------------------
(* getNodeWidth: Math.max(60, textWidth + NODE_PADDING_X * 2 + badgeExtra)  *)

measureText(A, a) == A.textWidth[a]

Max(a, b) == IF a < b THEN b ELSE a

getNodeWidth(A, a, hasCollapsedChildren) ==
    LET textWidth  == measureText(A, a)
        badgeExtra == IF hasCollapsedChildren THEN BadgeTextWidth + 8 ELSE 0
    IN  Max(MIN_NODE_W, textWidth + NODE_PADDING_X * 2 + badgeExtra)

-----------------------------------------------------------------------------
(* buildLayoutTree.  The layout tree is a function from the paths of the   *)
(* LayoutNodes to their records; references between LayoutNodes (children, *)
(* parent, thread, ancestor) are paths.                                     *)

\* A seeded fault for visibleChildrenOf: the expanded flag is ignored.
visibleChildrenAlways(A, node, expanded) == A.children[node]

\* const visibleChildren = expanded ? node.children : []
visibleChildrenOf(A, node, expanded) ==
    IF expanded THEN A.children[node] ELSE <<>>

RECURSIVE buildLayoutTree(_, _, _, _, _, _)
RECURSIVE buildChildren(_, _, _, _, _, _)

\* visibleChildren.map((child, i) => ...) from child i on (i is 1-based here,
\* so the child's path ends in i - 1 and its number is i): the LayoutNodes
\* of the subtrees of children i, i + 1, ...
buildChildren(A, visibleChildren, path, expanded_, depth, i) ==
    IF i > Len(visibleChildren) THEN <<>>
    ELSE LET childPath == Append(path, i - 1)
             childNode == buildLayoutTree(A, visibleChildren[i], childPath,
                                          expanded_, depth + 1, path)
         IN  [childNode EXCEPT ![childPath].number = i]
             @@ buildChildren(A, visibleChildren, path, expanded_, depth, i + 1)

buildLayoutTree(A, node, path, expanded_, depth, parent) ==
    LET expanded == path \in expanded_
        visibleChildren == visibleChildrenOf(A, node, expanded)
        hasCollapsedChildren == ~expanded /\ Len(A.children[node]) > 0
        layoutNode ==
            [ id |-> path, node |-> node, x |-> R(0), y |-> 0,
              width |-> getNodeWidth(A, node, hasCollapsedChildren),
              height |-> NODE_H,
              children |-> [i \in 1..Len(visibleChildren) |-> Append(path, i - 1)],
              parent |-> parent, expanded |-> expanded, depth |-> depth,
              mod |-> R(0), prelim |-> R(0), thread |-> NoNode,
              ancestor |-> path, change |-> R(0), shift |-> R(0), number |-> 0 ]
    IN  (path :> layoutNode)
        @@ buildChildren(A, visibleChildren, path, expanded_, depth, 1)

-----------------------------------------------------------------------------
(* The Reingold-Tilford layout.  Every function takes the layout tree L   *)
(* and returns the tree after the mutations the code performs.             *)

\* Array.prototype.indexOf, 0-based, -1 when absent.
indexOf(siblings, v) ==
    IF \E i \in 1..Len(siblings) : siblings[i] = v
    THEN (CHOOSE i \in 1..Len(siblings) :
              siblings[i] = v /\ \A j \in 1..(i - 1) : siblings[j] # v) - 1
    ELSE -1

includes(siblings, v) == \E i \in 1..Len(siblings) : siblings[i] = v

nextLeft(L, v) ==
    IF v = NoNode THEN NoNode
    ELSE IF Len(L[v].children) > 0 THEN L[v].children[1] ELSE L[v].thread

nextRight(L, v) ==
    IF v = NoNode THEN NoNode
    ELSE IF Len(L[v].children) > 0 THEN L[v].children[Len(L[v].children)]
         ELSE L[v].thread

findAncestor(L, vil, v, defaultAncestor, siblings) ==
    IF includes(siblings, L[vil].ancestor) THEN L[vil].ancestor ELSE defaultAncestor

\* A seeded fault for moveSubtree: wr.mod is not updated, so the
\* descendants of wr stay behind.
moveSubtreeWithoutMod(L, wl, wr, shift) ==
    LET subtrees == L[wr].number - L[wl].number
    IN  IF subtrees > 0
        THEN [L EXCEPT ![wr].change = RSub(@, RDiv(shift, R(subtrees))),
                       ![wr].shift  = RAdd(@, shift),
                       ![wr].prelim = RAdd(@, shift)]
        ELSE L

moveSubtree(L, wl, wr, shift) ==
    LET subtrees == L[wr].number - L[wl].number
    IN  IF subtrees > 0
        THEN [L EXCEPT ![wr].change = RSub(@, RDiv(shift, R(subtrees))),
                       ![wr].shift  = RAdd(@, shift),
                       ![wr].prelim = RAdd(@, shift),
                       ![wr].mod    = RAdd(@, shift)]
        ELSE L

\* v?.mod ?? 0
modOrZero(L, v) == IF v = NoNode THEN R(0) ELSE L[v].mod

\* One iteration of the while loop of apportion (lines 203-226) on the loop
\* state s = [L, vil, vir, vol, vor, sil, sir, sol, sor].
apportionStep(s, v, defaultAncestor, siblings) ==
    LET vil == nextRight(s.L, s.vil)
        vir == nextLeft(s.L, s.vir)
        vol == nextLeft(s.L, s.vol)
        vor == nextRight(s.L, s.vor)
        L1  == IF vor # NoNode THEN [s.L EXCEPT ![vor].ancestor = v] ELSE s.L
        shift == RAdd(RAdd(RSub(RAdd(L1[vil].prelim, s.sil),
                                RAdd(L1[vir].prelim, s.sir)),
                           R(L1[vil].width)),
                      R(NODE_GAP_X))
        moved == RLt(R(0), shift)
        L2  == IF moved
               THEN moveSubtree(L1, findAncestor(L1, vil, v, defaultAncestor, siblings),
                                v, shift)
               ELSE L1
        sir1 == IF moved THEN RAdd(s.sir, shift) ELSE s.sir
        sor1 == IF moved THEN RAdd(s.sor, shift) ELSE s.sor
    IN  [ L |-> L2, vil |-> vil, vir |-> vir, vol |-> vol, vor |-> vor,
          sil |-> RAdd(s.sil, modOrZero(L2, vil)),
          sir |-> RAdd(sir1, modOrZero(L2, vir)),
          sol |-> RAdd(s.sol, modOrZero(L2, vol)),
          sor |-> RAdd(sor1, modOrZero(L2, vor)) ]

RECURSIVE apportionLoop(_, _, _, _)
apportionLoop(s, v, defaultAncestor, siblings) ==
    IF nextRight(s.L, s.vil) # NoNode /\ nextLeft(s.L, s.vir) # NoNode
    THEN apportionLoop(apportionStep(s, v, defaultAncestor, siblings),
                       v, defaultAncestor, siblings)
    ELSE s

\* The second if of apportion (lines 233-240) on the tree L1 the first if
\* left, with the loop state s.  Returns [L, defaultAncestor].
apportionThreadLeft(L1, s, v, defaultAncestor) ==
    LET leftCase == /\ nextLeft(L1, s.vir) # NoNode
                    /\ nextLeft(L1, s.vol) = NoNode
    IN  [ L |-> IF leftCase /\ s.vol # NoNode
                THEN [L1 EXCEPT ![s.vol].thread = nextLeft(L1, s.vir),
                                ![s.vol].mod = RAdd(@, RSub(s.sir, s.sol))]
                ELSE L1,
          defaultAncestor |-> IF leftCase THEN v ELSE defaultAncestor ]

\* The two ifs after the while loop of apportion (lines 228-240), on the
\* loop state s the loop left.
apportionThreads(s, v, defaultAncestor) ==
    apportionThreadLeft(
        IF /\ nextRight(s.L, s.vil) # NoNode
           /\ nextRight(s.L, s.vor) = NoNode
           /\ s.vor # NoNode
        THEN [s.L EXCEPT ![s.vor].thread = nextRight(s.L, s.vil),
                         ![s.vor].mod = RAdd(@, RSub(s.sil, s.sor))]
        ELSE s.L,
        s, v, defaultAncestor)

\* Returns [L, defaultAncestor].
apportion(L, v, defaultAncestor, siblings) ==
    LET idx == indexOf(siblings, v)
    IN  IF idx <= 0 THEN [L |-> L, defaultAncestor |-> defaultAncestor]
        ELSE
        LET w  == siblings[idx]      \* siblings[idx - 1], the left sibling
            s0 == [ L |-> L, vil |-> w, vir |-> v, vol |-> siblings[1], vor |-> v,
                    sil |-> L[w].mod, sir |-> L[v].mod,
                    sol |-> L[siblings[1]].mod, sor |-> L[v].mod ]
        IN  apportionThreads(apportionLoop(s0, v, defaultAncestor, siblings),
                             v, defaultAncestor)

\* The loop of executeShifts over children i, i-1, ..., 1.
RECURSIVE executeShiftsLoop(_, _, _, _, _)
executeShiftsLoop(L, v, i, shift, change) ==
    IF i < 1 THEN L
    ELSE LET child   == L[v].children[i]
             L1      == [L EXCEPT ![child].prelim = RAdd(@, shift),
                                  ![child].mod    = RAdd(@, shift)]
             change1 == RAdd(change, L1[child].change)
             shift1  == RAdd(shift, RAdd(L1[child].shift, change1))
         IN  executeShiftsLoop(L1, v, i - 1, shift1, change1)

executeShifts(L, v) == executeShiftsLoop(L, v, Len(L[v].children), R(0), R(0))

\* A seeded fault for midpointOf: the node's own width is not subtracted.
midpointWithoutOwnWidth(L, v) ==
    LET firstChild == L[v].children[1]
        lastChild  == L[v].children[Len(L[v].children)]
    IN  RDiv(RAdd(RAdd(L[firstChild].prelim, L[lastChild].prelim),
                  R(L[lastChild].width)),
             R(2))

\* midpoint of firstWalk, line 174.
midpointOf(L, v) ==
    LET firstChild == L[v].children[1]
        lastChild  == L[v].children[Len(L[v].children)]
    IN  RDiv(RSub(RAdd(RAdd(L[firstChild].prelim, L[lastChild].prelim),
                       R(L[lastChild].width)),
                  R(L[v].width)),
             R(2))

RECURSIVE firstWalk(_, _, _)
RECURSIVE firstWalkChildren(_, _, _, _)
RECURSIVE firstWalkNextChild(_, _, _)

\* The for loop of firstWalk over v.children (lines 166-169), from child i on.
firstWalkChildren(L, v, i, defaultAncestor) ==
    IF i > Len(L[v].children) THEN L
    ELSE firstWalkNextChild(
             apportion(firstWalk(L, L[v].children[i], L[v].children),
                       L[v].children[i], defaultAncestor, L[v].children),
             v, i)

\* defaultAncestor = apportion(...), then the next iteration of the loop.
firstWalkNextChild(ap, v, i) == firstWalkChildren(ap.L, v, i + 1, ap.defaultAncestor)

\* A seeded fault for prelimRightOf: the width of the left sibling is left
\* out.
prelimRightOfStart(L, leftSibling) == RAdd(L[leftSibling].prelim, R(NODE_GAP_X))

\* leftSibling.prelim + leftSibling.width + NODE_GAP_X (lines 160 and 180).
prelimRightOf(L, leftSibling) ==
    RAdd(L[leftSibling].prelim, R(L[leftSibling].width + NODE_GAP_X))

\* A seeded fault for firstWalkPlace: a node with a left sibling gets its
\* prelim but not the mod that carries its children along.
firstWalkPlaceWithoutMod(L2, v, siblings) ==
    LET idx == indexOf(siblings, v)
    IN  IF idx > 0
        THEN [L2 EXCEPT ![v].prelim = prelimRightOf(L2, siblings[idx])]
        ELSE [L2 EXCEPT ![v].prelim = midpointOf(L2, v)]

\* The end of firstWalk for a node with children (lines 172-183), on the
\* tree L2 that executeShifts left.
firstWalkPlace(L2, v, siblings) ==
    LET idx == indexOf(siblings, v)
        midpoint == midpointOf(L2, v)
    IN  IF idx > 0
        THEN LET leftSibling == siblings[idx]
                 prelim == prelimRightOf(L2, leftSibling)
             IN  [L2 EXCEPT ![v].prelim = prelim,
                            ![v].mod = RSub(prelim, midpoint)]
        ELSE [L2 EXCEPT ![v].prelim = midpoint]

firstWalk(L, v, siblings) ==
    LET idx == indexOf(siblings, v)
    IN  IF Len(L[v].children) = 0
        THEN IF idx > 0
             THEN LET leftSibling == siblings[idx]
                  IN  [L EXCEPT ![v].prelim = prelimRightOf(L, leftSibling)]
             ELSE [L EXCEPT ![v].prelim = R(0)]
        ELSE firstWalkPlace(
                 executeShifts(firstWalkChildren(L, v, 1, L[v].children[1]), v),
                 v, siblings)

\* A seeded fault for levelY: the vertical gap is left out.
levelYWithoutGap(depth) == depth * NODE_H

\* v.y = depth * (NODE_H + NODE_GAP_Y)
levelY(depth) == depth * (NODE_H + NODE_GAP_Y)

RECURSIVE secondWalk(_, _, _, _)
RECURSIVE secondWalkChildren(_, _, _, _, _)

secondWalkChildren(L, v, i, m, depth) ==
    IF i > Len(L[v].children) THEN L
    ELSE secondWalkChildren(secondWalk(L, L[v].children[i], m, depth),
                            v, i + 1, m, depth)

secondWalk(L, v, m, depth) ==
    LET L1 == [L EXCEPT ![v].x = RAdd(L[v].prelim, m),
                        ![v].y = levelY(depth)]
    IN  secondWalkChildren(L1, v, 1, RAdd(m, L1[v].mod), depth + 1)

root == <<>>

\* The fold of walk(root) at lines 304-309: the least x, starting from Infinity.
RECURSIVE RMinOver(_)
RMinOver(S) ==
    LET a == CHOOSE a \in S : TRUE
    IN  IF S = {a} THEN a ELSE RMin(a, RMinOver(S \ {a}))

\* A seeded fault for layoutTree: the normalisation is left out.
layoutTreeWithoutNormalise(L) ==
    secondWalk(firstWalk(L, root, <<root>>), root, R(0), 0)

\* Lines 303-318 of layoutTree: shift every node right by -minX if minX < 0.
normalise(L2) ==
    LET minX == RMinOver({L2[p].x : p \in DOMAIN L2})
    IN  IF RLt(minX, R(0))
        THEN [p \in DOMAIN L2 |-> [L2[p] EXCEPT !.x = RAdd(@, RNeg(minX))]]
        ELSE L2

layoutTree(L) == normalise(secondWalk(firstWalk(L, root, <<root>>), root, R(0), 0))

\* collectNodes: the nodes in pre-order (the draw order).
RECURSIVE collectNodes(_, _)
RECURSIVE collectChildren(_, _, _)
collectChildren(L, v, i) ==
    IF i > Len(L[v].children) THEN <<>>
    ELSE collectNodes(L, L[v].children[i]) \o collectChildren(L, v, i + 1)

collectNodes(L, v) == <<L[v]>> \o collectChildren(L, v, 1)

\* The useMemo at lines 558-576: build, lay out, collect.
layoutOf(A, expanded_) ==
    collectNodes(layoutTree(buildLayoutTree(A, 1, root, expanded_, 0, NoNode)), root)

\* A seeded fault for collapsedBadge: every node that is not expanded gets a
\* badge.
collapsedBadgeOfUnexpanded(A, n) ==
    IF ~n.expanded THEN <<Len(A.children[n.node])>> ELSE <<>>

\* drawNode's collapsed-children badge for layout node n: <<N>> when the
\* badge '+N' is drawn (hasCollapsedChildren = !expanded && hasChildren,
\* N = node.children.length), <<>> when none is.
collapsedBadge(A, n) ==
    LET hasChildren == Len(A.children[n.node]) > 0
        hasCollapsedChildren == ~n.expanded /\ hasChildren
    IN  IF hasCollapsedChildren THEN <<Len(A.children[n.node])>> ELSE <<>>

-----------------------------------------------------------------------------
(* Hit testing, tree bounds and the camera.                                *)

NoHit == 0      \* hitTest's null; otherwise the index of the node in nodes

\* hitTest: the last node, in draw order, whose rectangle (edges included)
\* contains the world point; the loop runs from index i down to 1.
RECURSIVE hitTestFrom(_, _, _, _)
hitTestFrom(nodes, worldX, worldY, i) ==
    IF i < 1 THEN NoHit
    ELSE LET n == nodes[i]
         IN  IF /\ RLe(n.x, worldX)
                /\ RLe(worldX, RAdd(n.x, R(n.width)))
                /\ RLe(R(n.y), worldY)
                /\ RLe(worldY, R(n.y + n.height))
             THEN i
             ELSE hitTestFrom(nodes, worldX, worldY, i - 1)

\* A seeded fault for hitTest: the loop stops before the first node.
hitTestSkippingFirst(nodes, worldX, worldY) ==
    LET h == hitTestFrom(nodes, worldX, worldY, Len(nodes))
    IN  IF h = 1 THEN NoHit ELSE h

hitTest(nodes, worldX, worldY) == hitTestFrom(nodes, worldX, worldY, Len(nodes))

\* treeBounds of the useMemo, lines 563-570: both maxima start at 0.
RECURSIVE maxRightFrom(_, _, _)
maxRightFrom(nodes, i, maxX) ==
    IF i > Len(nodes) THEN maxX
    ELSE LET right == RAdd(nodes[i].x, R(nodes[i].width))
         IN  maxRightFrom(nodes, i + 1, IF RLt(maxX, right) THEN right ELSE maxX)

RECURSIVE maxBottomFrom(_, _, _)
maxBottomFrom(nodes, i, maxY) ==
    IF i > Len(nodes) THEN maxY
    ELSE LET bottom == nodes[i].y + nodes[i].height
         IN  maxBottomFrom(nodes, i + 1, IF bottom > maxY THEN bottom ELSE maxY)

\* A seeded fault for screenToWorld: the zoom is ignored.
screenToWorldUnscaled(cam, sx, sy) ==
    [ x |-> RSub(sx, cam.x), y |-> RSub(sy, cam.y) ]

treeBoundsOf(nodes) ==
    [ width |-> maxRightFrom(nodes, 1, R(0)), height |-> maxBottomFrom(nodes, 1, 0) ]

screenToWorld(cam, sx, sy) ==
    [ x |-> RDiv(RSub(sx, cam.x), cam.zoom), y |-> RDiv(RSub(sy, cam.y), cam.zoom) ]

FIT_PAD == 60
FIT_SIZE_DELTA == 50
SCROLL_MARGIN == 80
MOVE_THRESHOLD == 3

\* A seeded fault for fitCamera: the zoom is not capped at 1.
fitCameraUncapped(sz, tb) ==
    LET scaleX == RDiv(R(sz.width - FIT_PAD * 2), RMax(R(1), tb.width))
        scaleY == RDiv(R(sz.height - FIT_PAD * 2), RMax(R(1), R(tb.height)))
        zoom   == RMin(scaleX, scaleY)
    IN  [ x |-> RDiv(RSub(R(sz.width), RMul(tb.width, zoom)), R(2)),
          y |-> R(FIT_PAD), zoom |-> zoom ]

\* The camera computed by the auto-fit effect (lines 598-605) and by
\* fitToView (lines 938-944).
fitCamera(sz, tb) ==
    LET scaleX == RDiv(R(sz.width - FIT_PAD * 2), RMax(R(1), tb.width))
        scaleY == RDiv(R(sz.height - FIT_PAD * 2), RMax(R(1), R(tb.height)))
        zoom   == RMin(R(1), RMin(scaleX, scaleY))
    IN  [ x |-> RDiv(RSub(R(sz.width), RMul(tb.width, zoom)), R(2)),
          y |-> R(FIT_PAD), zoom |-> zoom ]

\* ast.kind + '|' + ast.children.length
astRootKind(A) == <<A.kind, Len(A.children[1])>>
NoRootKind == <<"", -1>>    \* prevAstRootRef.current = null

\* A seeded fault for autoFitEffect: every run with a non-zero size fits.
autoFitEffectAlways(A, nodes, sz, cam, prevRoot, prevSize) ==
    IF sz.width = 0 \/ sz.height = 0
    THEN [camera |-> cam, prevAstRootRef |-> prevRoot, prevSizeRef |-> prevSize,
          fit |-> FALSE]
    ELSE [camera |-> fitCamera(sz, treeBoundsOf(nodes)),
          prevAstRootRef |-> astRootKind(A), prevSizeRef |-> sz, fit |-> TRUE]

\* The auto-fit effect (lines 584-607) run with the rendered values:
\* [camera, prevAstRootRef, prevSizeRef, fit], fit telling whether it set the
\* camera.
autoFitEffect(A, nodes, sz, cam, prevRoot, prevSize) ==
    IF sz.width = 0 \/ sz.height = 0
    THEN [camera |-> cam, prevAstRootRef |-> prevRoot, prevSizeRef |-> prevSize,
          fit |-> FALSE]
    ELSE LET isNewAst == prevRoot # NoRootKind /\ prevRoot # astRootKind(A)
             isFirstRender == prevSize.width = 0 /\ prevSize.height = 0
             sizeChangedSignificantly ==
                 \/ Abs(sz.width - prevSize.width) > FIT_SIZE_DELTA
                 \/ Abs(sz.height - prevSize.height) > FIT_SIZE_DELTA
             fit == isFirstRender \/ isNewAst \/ sizeChangedSignificantly
         IN  [camera |-> IF fit THEN fitCamera(sz, treeBoundsOf(nodes)) ELSE cam,
              prevAstRootRef |-> astRootKind(A), prevSizeRef |-> sz, fit |-> fit]

\* allNodes.find((n) => n.id === cursorNodePath): the index, or 0.
findById(nodes, path) ==
    IF \E i \in 1..Len(nodes) : nodes[i].id = path
    THEN CHOOSE i \in 1..Len(nodes) :
             nodes[i].id = path /\ \A j \in 1..(i - 1) : nodes[j].id # path
    ELSE 0

\* The scroll-to-cursor effect (lines 610-633): the translation [dx, dy] it
\* adds to the camera, computed from cameraRef.current = cam.
scrollDelta(nodes, cursor, sz, cam) ==
    LET t == findById(nodes, cursor)
    IN  IF cursor = NoNode \/ sz.width = 0 \/ t = 0
        THEN [dx |-> R(0), dy |-> R(0)]
        ELSE
        LET target  == nodes[t]
            screenX == RAdd(RMul(target.x, cam.zoom), cam.x)
            screenY == RAdd(RMul(R(target.y), cam.zoom), cam.y)
            screenRight  == RAdd(RMul(RAdd(target.x, R(target.width)), cam.zoom), cam.x)
            screenBottom == RAdd(RMul(R(target.y + target.height), cam.zoom), cam.y)
            margin == R(SCROLL_MARGIN)
            dx == IF RLt(screenX, margin) THEN RSub(margin, screenX)
                  ELSE IF RLt(RSub(R(sz.width), margin), screenRight)
                       THEN RSub(RSub(R(sz.width), margin), screenRight)
                       ELSE R(0)
            dy == IF RLt(screenY, margin) THEN RSub(margin, screenY)
                  ELSE IF RLt(RSub(R(sz.height), margin), screenBottom)
                       THEN RSub(RSub(R(sz.height), margin), screenBottom)
                       ELSE R(0)
        IN  [dx |-> dx, dy |-> dy]

\* setCamera((c) => ({ ...c, x: c.x + dx, y: c.y + dy })) of the scroll
\* effect, applied to the result f of the auto-fit effect when dx or dy is
\* not 0.
applyScroll(f, d) ==
    [ f EXCEPT !.camera = IF d.dx # R(0) \/ d.dy # R(0)
                          THEN [@ EXCEPT !.x = RAdd(@, d.dx), !.y = RAdd(@, d.dy)]
                          ELSE @ ]

\* The effects of one commit, in declaration order.  runFit and runScroll say
\* whether a dependency of the auto-fit effect ([ast, treeBounds, size]) and
\* of the scroll effect ([cursorNodePath, allNodes, size]) changed.  cam is
\* the rendered camera, which is what cameraRef.current holds while the
\* effects run; the scroll effect's setCamera((c) => ...) is applied to the
\* camera the auto-fit effect has set in the same commit.
effectsOf(A, nodes, sz, cursor, cam, prevRoot, prevSize, runFit, runScroll) ==
    applyScroll(IF runFit THEN autoFitEffect(A, nodes, sz, cam, prevRoot, prevSize)
                ELSE [camera |-> cam, prevAstRootRef |-> prevRoot,
                      prevSizeRef |-> prevSize, fit |-> FALSE],
                IF runScroll THEN scrollDelta(nodes, cursor, sz, cam)
                ELSE [dx |-> R(0), dy |-> R(0)])

\* Zoom at a point (wheel, pinch, buttons): the camera with zoom newZoom that
\* keeps the world point under the screen point (ax, ay).
zoomAt(cam, ax, ay, newZoom) ==
    LET worldX == RDiv(RSub(ax, cam.x), cam.zoom)
        worldY == RDiv(RSub(ay, cam.y), cam.zoom)
    IN  [ zoom |-> newZoom,
          x |-> RSub(ax, RMul(worldX, newZoom)),
          y |-> RSub(ay, RMul(worldY, newZoom)) ]

MIN_ZOOM == <<1, 10>>
MAX_ZOOM == <<3, 1>>
WHEEL_OUT == <<9, 10>>
WHEEL_IN == <<11, 10>>
BUTTON_STEP == <<13, 10>>

\* Math.min(3, Math.max(0.1, z))
clampZoom(z) == RMin(MAX_ZOOM, RMax(MIN_ZOOM, z))

\* Math.hypot for the finger distances the model uses (integral ones).
hypot(dx, dy) == CHOOSE h \in 0..(Abs(dx) + Abs(dy)) : h * h = dx * dx + dy * dy

-----------------------------------------------------------------------------
(* The owner of the tree view (App): the expanded set and the cursor.      *)

\* parseCode, lines 813-821: 'root' and every 'root-i'.
initialExpanded(A) == {root} \cup { <<i - 1>> : i \in 1..Len(A.children[1]) }

\* A seeded fault for toggleNode: the path is only ever added.
toggleNodeAddOnly(expanded_, path) == expanded_ \cup {path}

\* toggleNode: flip the membership of path.
toggleNode(expanded_, path) ==
    IF path \in expanded_ THEN expanded_ \ {path} ELSE expanded_ \cup {path}

\* A seeded fault for expandPathToNode: the paths are added to the set.
expandPathToNodeAdding(targetPath) ==
    expandedNodes \cup { SubSeq(targetPath, 1, k) : k \in 0..Len(targetPath) }

\* expandPathToNode: 'root' and every prefix of the target path.
expandPathToNode(targetPath) == { SubSeq(targetPath, 1, k) : k \in 0..Len(targetPath) }

-----------------------------------------------------------------------------
(* State of the view and of the events.                                    *)

MaxSteps == 3       \* events handled in one behaviour
MaxFingers == 3     \* fingers on the canvas at a time

NoDrag ==
    [ null |-> TRUE, active |-> FALSE, startX |-> 0, startY |-> 0,
      startCamX |-> R(0), startCamY |-> R(0), moved |-> FALSE ]

NoPinch ==
    [ null |-> TRUE, active |-> FALSE, initialDist |-> 0, initialZoom |-> R(0),
      midX |-> R(0), midY |-> R(0) ]

NoSize == [width |-> 0, height |-> 0]
InitialCamera == [x |-> R(0), y |-> R(0), zoom |-> R(1)]

\* The record of a handled event: its name, its point (for a wheel event, a
\* move and a release), the vector from the first finger to the second (for
\* a two-finger touchstart and a pinch move), 0, 0 otherwise, and the camera
\* it found; fit tells whether the auto-fit effect set the camera in its commit,
\* hit is the result of a direct call of hitTest.
Event(op, x, y, fit) ==
    [ op |-> op, x |-> x, y |-> y, cam |-> camera, fit |-> fit, hit |-> NoHit ]

\* No call made yet.
NoCall == [fn |-> "none"]

\* The bottom sheet (BottomSheet), mounted in the narrow layout
\* (window.innerWidth < 768); every viewport of the model is that narrow.
HALF_RATIO == <<1, 2>>
FULL_RATIO == <<23, 25>>
MIN_DRAG_HEIGHT == 60
CollapseRatio == <<3, 20>>     \* 0.15
MovedThreshold == 5
DefaultWindowHeight == 800

NoDragState == [startY |-> -1, startHeight |-> NaN, moved |-> FALSE]

\* Math.round of a rational x >= 0: the nearest integer, a half going up.
MathRound(x) == (2 * x[1] + x[2]) \div (2 * x[2])

RAbs(a) == IF RLt(a, R(0)) THEN RNeg(a) ELSE a

\* getSnapHeight(snap, windowHeight)
getSnapHeight(snap_, wh) ==
    IF snap_ = "collapsed" THEN R(0)
    ELSE IF snap_ = "half" THEN R(MathRound(RMul(R(wh), HALF_RATIO)))
    ELSE R(MathRound(RMul(R(wh), FULL_RATIO)))

\* A seeded fault for nearerSnap: a tie goes to 'full'.
nearerSnapTieFull(distHalf, distFull) ==
    IF RLt(distHalf, distFull) THEN "half" ELSE "full"

\* if (distHalf <= distFull) return 'half'; return 'full'
nearerSnap(distHalf, distFull) ==
    IF RLe(distHalf, distFull) THEN "half" ELSE "full"

\* nearestSnap(height, windowHeight)
nearestSnap(height, wh) ==
    LET half == RMul(R(wh), HALF_RATIO)
        full == RMul(R(wh), FULL_RATIO)
    IN  IF RLt(height, RMul(R(wh), CollapseRatio)) THEN "collapsed"
        ELSE nearerSnap(RAbs(RSub(height, half)), RAbs(RSub(height, full)))

\* The effect that syncs the height after a render: getSnapHeight of the
\* snap prop unless a drag is going on.
syncHeight(dragging, snap_, wh, height) ==
    IF ~dragging THEN getSnapHeight(snap_, wh) ELSE height

\* The sheet after its first render and effects.
SheetMounted ==
    /\ snap = "collapsed"
    /\ currentHeight = R(0)
    /\ isDragging = FALSE
    /\ dragState = NoDragState
    /\ windowHeight = DefaultWindowHeight

\* The state outside TreeView when the view is mounted.
AppState(ready) ==
    /\ call = NoCall
    /\ decorations = <<>>    \* create(): Decoration.none
    /\ isAllExpanded = FALSE
    /\ SheetMounted
    /\ now = 0
    /\ timers = {}
    /\ cursorDebounceRef = 0
    /\ notified = <<>>
    /\ lookups = <<>>
    /\ code = "sample rust"
    /\ language = "rust"
    /\ parsing = {}
    /\ callers = <<>>
    /\ parses = <<>>
    /\ IF ready
       THEN /\ parser = TRUE
            /\ initPromise = "fulfilled"
            /\ performed = [init |-> 1, parser |-> 1]
            /\ languages = {"rust"}
            /\ parseResult = [code |-> "sample rust", language |-> "rust"]
       ELSE /\ parser = FALSE
            /\ initPromise = "null"
            /\ performed = [init |-> 0, parser |-> 0]
            /\ languages = {}
            /\ parseResult = [code |-> "", language |-> ""]

\* The owner once the parser is initialised and the first parse is shown.
AppInit == AppState(TRUE)

\* The owner when the module is loaded: new TreeSitterParser(), no result.
AppConstructed == AppState(FALSE)

\* The state in which TreeView is mounted, before the first observation of
\* its size: useState and useRef initial values.
ViewMounted(A) ==
    /\ ast = A
    /\ expandedNodes = initialExpanded(A)
    /\ cursorNodePath = NoNode
    /\ allNodes = layoutOf(A, expandedNodes)
    /\ camera = InitialCamera
    /\ size = NoSize
    /\ dragRef = NoDrag
    /\ pinchRef = NoPinch
    /\ hoveredRef = NoNode
    /\ prevAstRootRef = NoRootKind
    /\ prevSizeRef = NoSize
    /\ fingers = 0
    /\ emitted = <<>>
    /\ last = [op |-> "mount", x |-> 0, y |-> 0, cam |-> InitialCamera, fit |-> FALSE,
               hit |-> NoHit]
    /\ steps = 0

Mounted(A) == ViewMounted(A) /\ AppInit

\* A commit that follows a change of props or size: the layout is recomputed
\* when the tree or the expanded set changed, then the effects run.  cam is
\* the camera the handler left.
Commit(op, x, y, A, expanded_, cursor, sz, relayout, runFit, runScroll) ==
    /\ ast' = A
    /\ expandedNodes' = expanded_
    /\ cursorNodePath' = cursor
    /\ size' = sz
    /\ allNodes' = IF relayout THEN layoutOf(A, expanded_) ELSE allNodes
    /\ \E e \in { effectsOf(A, allNodes', sz, cursor, camera, prevAstRootRef,
                             prevSizeRef, runFit, runScroll) } :
          /\ camera' = e.camera
          /\ prevAstRootRef' = e.prevAstRootRef
          /\ prevSizeRef' = e.prevSizeRef
          /\ last' = Event(op, x, y, e.fit)

\* A handler that only calls setCamera(cam): no dependency of an effect
\* changes.
SetCamera(op, x, y, cam) ==
    /\ camera' = cam
    /\ last' = Event(op, x, y, FALSE)
    /\ UNCHANGED <<ast, expandedNodes, cursorNodePath, size, allNodes,
                   prevAstRootRef, prevSizeRef>>

Step == steps < MaxSteps /\ steps' = steps + 1

\* A seeded fault for hasChildren: every node counts as a parent.
hasChildrenAlways(nodes, h) == TRUE

\* hit.node.children.length > 0
hasChildren(nodes, h) == Len(ast.children[nodes[h].node]) > 0

-----------------------------------------------------------------------------
(* The handlers.                                                           *)

\* ResizeObserver callback: setSize, then the commit with both effects.
Resize(w, h) ==
    /\ Step
    /\ Commit("resize", 0, 0, ast, expandedNodes, cursorNodePath,
              [width |-> w, height |-> h], FALSE, TRUE, TRUE)
    /\ emitted' = <<>>
    /\ UNCHANGED <<dragRef, pinchRef, hoveredRef, fingers>>
    /\ UNCHANGED appVars

\* The owner replaces the tree (a parse of new code): parseCode resets the
\* expanded set.
Reparse(A) ==
    /\ Step
    /\ A # ast
    /\ Commit("reparse", 0, 0, A, initialExpanded(A), cursorNodePath, size,
              TRUE, TRUE, TRUE)
    /\ emitted' = <<>>
    /\ UNCHANGED <<dragRef, pinchRef, hoveredRef, fingers>>
    /\ UNCHANGED appVars

\* The owner moves the cursor node: handleCursorChange sets cursorNodePath
\* and expands the path to it.
CursorTo(path) ==
    /\ Step
    /\ path # cursorNodePath
    /\ Commit("cursor", 0, 0, ast, expandPathToNode(path), path, size,
              TRUE, TRUE, TRUE)
    /\ emitted' = <<>>
    /\ UNCHANGED <<dragRef, pinchRef, hoveredRef, fingers>>
    /\ UNCHANGED appVars

\* The owner toggles a node (a click in its list view).
ToggleNode(path) ==
    /\ Commit("toggle", 0, 0, ast, toggleNode(expandedNodes, path), cursorNodePath,
              size, TRUE, TRUE, TRUE)
    /\ emitted' = <<>>
    /\ UNCHANGED <<dragRef, pinchRef, hoveredRef, fingers, steps>>
    /\ UNCHANGED appVars

\* fitToView (the fit button).
FitToView ==
    /\ Step
    /\ size.width # 0 /\ size.height # 0
    /\ SetCamera("fitToView", 0, 0, fitCamera(size, treeBoundsOf(allNodes)))
    /\ emitted' = <<>>
    /\ UNCHANGED <<dragRef, pinchRef, hoveredRef, fingers>>
    /\ UNCHANGED appVars

\* The + button: zoom in about the centre of the viewport.
ZoomIn ==
    /\ Step
    /\ SetCamera("zoomIn", 0, 0,
                 zoomAt(camera, RDiv(R(size.width), R(2)), RDiv(R(size.height), R(2)),
                        RMin(MAX_ZOOM, RMul(camera.zoom, BUTTON_STEP))))
    /\ emitted' = <<>>
    /\ UNCHANGED <<dragRef, pinchRef, hoveredRef, fingers>>
    /\ UNCHANGED appVars

\* The - button: zoom out about the centre of the viewport.
ZoomOut ==
    /\ Step
    /\ SetCamera("zoomOut", 0, 0,
                 zoomAt(camera, RDiv(R(size.width), R(2)), RDiv(R(size.height), R(2)),
                        RMax(MIN_ZOOM, RDiv(camera.zoom, BUTTON_STEP))))
    /\ emitted' = <<>>
    /\ UNCHANGED <<dragRef, pinchRef, hoveredRef, fingers>>
    /\ UNCHANGED appVars

\* const factor = e.deltaY > 0 ? 0.9 : 1.1
wheelFactor(deltaY) == IF deltaY > 0 THEN WHEEL_OUT ELSE WHEEL_IN

\* onWheel; the event is recorded as "wheelDown" for a positive deltaY and as
\* "wheelUp" for a negative one.
Wheel(sx, sy, deltaY) ==
    /\ Step
    /\ SetCamera(IF deltaY > 0 THEN "wheelDown" ELSE "wheelUp", sx, sy,
                 zoomAt(camera, R(sx), R(sy),
                        clampZoom(RMul(camera.zoom, wheelFactor(deltaY)))))
    /\ emitted' = <<>>
    /\ UNCHANGED <<dragRef, pinchRef, hoveredRef, fingers>>
    /\ UNCHANGED appVars

\* dragRef.current = {active: true, startX, startY, startCamX, startCamY, moved: false}
newDrag(x, y) ==
    [ null |-> FALSE, active |-> TRUE, startX |-> x, startY |-> y,
      startCamX |-> camera.x, startCamY |-> camera.y, moved |-> FALSE ]

\* A seeded fault for movedAfter: the flag follows the latest move only.
movedWhileFar(drag, sx, sy) ==
    \/ Abs(sx - drag.startX) > MOVE_THRESHOLD
    \/ Abs(sy - drag.startY) > MOVE_THRESHOLD

\* The drag branch of handlePointerMove and of onTouchMove: the moved flag
\* after a move to (sx, sy).
movedAfter(drag, sx, sy) ==
    \/ drag.moved
    \/ Abs(sx - drag.startX) > MOVE_THRESHOLD
    \/ Abs(sy - drag.startY) > MOVE_THRESHOLD

\* The camera the drag branch sets.
panCamera(drag, sx, sy) ==
    [ camera EXCEPT !.x = RAdd(drag.startCamX, R(sx - drag.startX)),
                    !.y = RAdd(drag.startCamY, R(sy - drag.startY)) ]

\* handlePointerDown with pointerType 'mouse' or 'pen'.
PointerDown(x, y) ==
    /\ Step
    /\ dragRef' = newDrag(x, y)
    /\ emitted' = <<>>
    /\ last' = Event("pointerdown", 0, 0, FALSE)
    /\ UNCHANGED <<ast, expandedNodes, cursorNodePath, allNodes, camera, size,
                   pinchRef, hoveredRef, prevAstRootRef, prevSizeRef, fingers>>
    /\ UNCHANGED appVars

\* handlePointerDown with pointerType 'touch': returns at once.
PointerDownTouch == UNCHANGED vars

\* handlePointerMove, for any pointer type.
PointerMove(sx, sy) ==
    /\ Step
    /\ IF dragRef.active
       THEN /\ dragRef' = [dragRef EXCEPT !.moved = movedAfter(dragRef, sx, sy)]
            /\ SetCamera("pointermove", sx, sy, panCamera(dragRef, sx, sy))
            /\ emitted' = <<>>
            /\ UNCHANGED hoveredRef
       ELSE LET world == screenToWorld(camera, R(sx), R(sy))
                hit == hitTest(allNodes, world.x, world.y)
            IN  /\ IF hit # NoHit
                   THEN IF hoveredRef # allNodes[hit].id
                        THEN /\ hoveredRef' = allNodes[hit].id
                             /\ emitted' = <<[cb |-> "hover", path |-> allNodes[hit].id]>>
                        ELSE /\ UNCHANGED hoveredRef
                             /\ emitted' = <<>>
                   ELSE IF hoveredRef # NoNode
                        THEN /\ hoveredRef' = NoNode
                             /\ emitted' = <<[cb |-> "leave", path |-> NoNode]>>
                        ELSE /\ UNCHANGED hoveredRef
                             /\ emitted' = <<>>
                /\ last' = Event("pointermove", sx, sy, FALSE)
                /\ UNCHANGED <<ast, expandedNodes, cursorNodePath, allNodes, camera,
                               size, prevAstRootRef, prevSizeRef, dragRef>>
    /\ UNCHANGED <<pinchRef, fingers>>
    /\ UNCHANGED appVars

\* handlePointerUp with no press recorded: returns at once.
PointerUpIdle == dragRef.null /\ UNCHANGED vars

\* handlePointerUp with a press recorded, for any pointer type.
PointerUp(sx, sy) ==
    /\ Step
    /\ ~dragRef.null
    /\ LET world == screenToWorld(camera, R(sx), R(sy))
           hit == IF dragRef.moved THEN NoHit ELSE hitTest(allNodes, world.x, world.y)
       IN  IF hit # NoHit /\ hasChildren(allNodes, hit)
           THEN /\ emitted' = <<[cb |-> "toggle", path |-> allNodes[hit].id]>>
                /\ Commit("pointerup", sx, sy, ast,
                          toggleNode(expandedNodes, allNodes[hit].id),
                          cursorNodePath, size, TRUE, TRUE, TRUE)
           ELSE /\ emitted' = <<>>
                /\ last' = Event("pointerup", sx, sy, FALSE)
                /\ UNCHANGED <<ast, expandedNodes, cursorNodePath, allNodes, camera,
                               size, prevAstRootRef, prevSizeRef>>
    /\ dragRef' = NoDrag
    /\ UNCHANGED <<pinchRef, hoveredRef, fingers>>
    /\ UNCHANGED appVars

\* onTouchStart; touches is e.touches, a sequence of points.
TouchStart(touches) ==
    /\ Step
    /\ Len(touches) > fingers
    /\ fingers' = Len(touches)
    /\ IF Len(touches) = 2
       THEN LET t0 == touches[1]
                t1 == touches[2]
            IN  /\ pinchRef' = [ null |-> FALSE, active |-> TRUE,
                                 initialDist |-> hypot(t1[1] - t0[1], t1[2] - t0[2]),
                                 initialZoom |-> camera.zoom,
                                 midX |-> RDiv(R(t0[1] + t1[1]), R(2)),
                                 midY |-> RDiv(R(t0[2] + t1[2]), R(2)) ]
                /\ dragRef' = NoDrag
       ELSE IF Len(touches) = 1
       THEN /\ dragRef' = newDrag(touches[1][1], touches[1][2])
            /\ pinchRef' = NoPinch
       ELSE UNCHANGED <<dragRef, pinchRef>>
    /\ emitted' = <<>>
    /\ last' = IF Len(touches) = 2
               THEN Event("touchstart", touches[2][1] - touches[1][1],
                          touches[2][2] - touches[1][2], FALSE)
               ELSE Event("touchstart", 0, 0, FALSE)
    /\ UNCHANGED <<ast, expandedNodes, cursorNodePath, allNodes, camera, size,
                   hoveredRef, prevAstRootRef, prevSizeRef>>
    /\ UNCHANGED appVars

\* A seeded fault for pinchZoom: the scale is applied to the current zoom.
pinchZoomFromCurrent(pinch, dist) ==
    clampZoom(RMul(camera.zoom, RDiv(R(dist), R(pinch.initialDist))))

\* The zoom of onTouchMove's pinch branch: scale = dist / initialDist,
\* newZoom = Math.min(3, Math.max(0.1, initialZoom * scale)).
pinchZoom(pinch, dist) ==
    clampZoom(RMul(pinch.initialZoom, RDiv(R(dist), R(pinch.initialDist))))

\* onTouchMove with two touches and an active pinch.
PinchMove(touches) ==
    /\ Step
    /\ Len(touches) = 2 /\ fingers = 2 /\ pinchRef.active
    /\ LET t0 == touches[1]
           t1 == touches[2]
           dist == hypot(t1[1] - t0[1], t1[2] - t0[2])
       IN  SetCamera("pinch", t1[1] - t0[1], t1[2] - t0[2],
                     zoomAt(camera, pinchRef.midX, pinchRef.midY,
                            pinchZoom(pinchRef, dist)))
    /\ emitted' = <<>>
    /\ UNCHANGED <<dragRef, pinchRef, hoveredRef, fingers>>
    /\ UNCHANGED appVars

\* onTouchMove with one touch and an active drag.
TouchDrag(sx, sy) ==
    /\ Step
    /\ fingers = 1 /\ dragRef.active
    /\ dragRef' = [dragRef EXCEPT !.moved = movedAfter(dragRef, sx, sy)]
    /\ SetCamera("touchmove", sx, sy, panCamera(dragRef, sx, sy))
    /\ emitted' = <<>>
    /\ UNCHANGED <<pinchRef, hoveredRef, fingers>>
    /\ UNCHANGED appVars

\* onTouchMove in every other case: preventDefault only.
TouchMoveIgnored ==
    /\ fingers > 0
    /\ ~(fingers = 2 /\ pinchRef.active)
    /\ ~(fingers = 1 /\ dragRef.active)
    /\ UNCHANGED vars

\* onTouchEnd; remaining is e.touches.length.  The handler does not read the
\* point where the finger left the canvas.
TouchEnd(remaining) ==
    /\ Step
    /\ remaining < fingers
    /\ fingers' = remaining
    /\ pinchRef' = IF pinchRef.active /\ remaining < 2 THEN NoPinch ELSE pinchRef
    /\ IF ~dragRef.null /\ remaining = 0
       THEN LET world == screenToWorld(camera, R(dragRef.startX), R(dragRef.startY))
                hit == IF dragRef.moved THEN NoHit
                       ELSE hitTest(allNodes, world.x, world.y)
                hover == IF hit # NoHit
                         THEN <<[cb |-> "hover", path |-> allNodes[hit].id]>>
                         ELSE <<>>
            IN  /\ dragRef' = NoDrag
                /\ IF hit # NoHit /\ hasChildren(allNodes, hit)
                   THEN /\ emitted' = hover \o <<[cb |-> "toggle", path |-> allNodes[hit].id]>>
                        /\ Commit("touchend", dragRef.startX, dragRef.startY, ast,
                                  toggleNode(expandedNodes, allNodes[hit].id),
                                  cursorNodePath, size, TRUE, TRUE, TRUE)
                   ELSE /\ emitted' = hover
                        /\ last' = Event("touchend", dragRef.startX, dragRef.startY, FALSE)
                        /\ UNCHANGED <<ast, expandedNodes, cursorNodePath, allNodes,
                                       camera, size, prevAstRootRef, prevSizeRef>>
       ELSE /\ emitted' = <<>>
            /\ last' = Event("touchend", 0, 0, FALSE)
            /\ UNCHANGED <<dragRef, ast, expandedNodes, cursorNodePath, allNodes,
                           camera, size, prevAstRootRef, prevSizeRef>>
    /\ UNCHANGED hoveredRef
    /\ UNCHANGED appVars

\* A direct call of hitTest on the visible node list with a world point.
HitTestAt(worldX, worldY) ==
    /\ last' = [ Event("hitTest", worldX, worldY, FALSE)
                 EXCEPT !.hit = hitTest(allNodes, worldX, worldY) ]
    /\ UNCHANGED <<ast, expandedNodes, cursorNodePath, allNodes, camera, size,
                   dragRef, pinchRef, hoveredRef, prevAstRootRef, prevSizeRef,
                   fingers, emitted, steps>>
    /\ UNCHANGED appVars

-----------------------------------------------------------------------------
(* The owner's lookups by path.  Here a path is the string itself, written *)
(* as the sequence of its characters.                                      *)

Digits == {"0", "1", "2", "3", "4", "5", "6", "7", "8", "9"}

DigitValue(c) ==
    CASE c = "0" -> 0 [] c = "1" -> 1 [] c = "2" -> 2 [] c = "3" -> 3
      [] c = "4" -> 4 [] c = "5" -> 5 [] c = "6" -> 6 [] c = "7" -> 7
      [] c = "8" -> 8 [] c = "9" -> 9

\* String.prototype.split(sep) for a one-character separator: the sequence
\* of the pieces of str between the separators.
RECURSIVE split(_, _)
split(str, sep) ==
    IF \E i \in 1..Len(str) : str[i] = sep
    THEN LET i == CHOOSE i \in 1..Len(str) :
                      str[i] = sep /\ \A j \in 1..(i - 1) : str[j] # sep
         IN  <<SubSeq(str, 1, i - 1)>> \o split(SubSeq(str, i + 1, Len(str)), sep)
    ELSE <<str>>

NotANumber == -1

\* The value of the digits of str from position i on, up to the first
\* character that is not a digit, acc being the value so far.
RECURSIVE digitsValue(_, _, _)
digitsValue(str, i, acc) ==
    IF i > Len(str) \/ str[i] \notin Digits THEN acc
    ELSE digitsValue(str, i + 1, 10 * acc + DigitValue(str[i]))

\* parseInt(str, 10) for a string without white space and without '-':
\* an optional '+', then the longest run of digits, whatever follows it;
\* NaN (NotANumber) when there is no digit there.
parseInt(str) ==
    LET start == IF Len(str) > 0 /\ str[1] = "+" THEN 2 ELSE 1
    IN  IF start > Len(str) \/ str[start] \notin Digits THEN NotANumber
        ELSE digitsValue(str, start, 0)

\* The for loop of getNodeByPath from part i on; current is a source node,
\* the result a source node or 0 for null.
RECURSIVE getNodeByPathFrom(_, _, _, _)
getNodeByPathFrom(A, parts, i, current) ==
    IF i > Len(parts) THEN current
    ELSE LET index == parseInt(parts[i])
         IN  IF index = NotANumber \/ index >= Len(A.children[current]) THEN 0
             ELSE getNodeByPathFrom(A, parts, i + 1, A.children[current][index + 1])

\* getNodeByPath(ast, path): parts = path.split('-').slice(1).
getNodeByPath(A, path) ==
    LET parts == Tail(split(path, "-"))
    IN  getNodeByPathFrom(A, parts, 1, 1)

\* A direct call of getNodeByPath on the tree shown.
GetNodeByPath(path) ==
    /\ call' = [fn |-> "getNodeByPath", path |-> path,
                result |-> getNodeByPath(ast, path)]
    /\ UNCHANGED <<decorations, isAllExpanded, sheetVars, debounceVars,
                   parseVars, parserVars>>
    /\ UNCHANGED <<ast, expandedNodes, cursorNodePath, allNodes, camera, size,
                   dragRef, pinchRef, hoveredRef, prevAstRootRef, prevSizeRef,
                   fingers, emitted, last, steps>>

\* The decimal digit of d, 0 <= d <= 9.
DigitChar(d) == CHOOSE c \in Digits : DigitValue(c) = d

\* Number.prototype.toString for an integer n >= 0, as a template literal
\* formats an index.
RECURSIVE toString(_)
toString(n) ==
    IF n < 10 THEN <<DigitChar(n)>>
    ELSE toString(n \div 10) \o <<DigitChar(n % 10)>>

\* 'root'
RootString == <<"r", "o", "o", "t">>

\* A seeded fault for childPath: the index is counted from one.
childPathOneBased(path, i) == path \o <<"-">> \o toString(i + 1)

\* `${path}-${i}`: the path of child i (zero-based) of the node with path.
childPath(path, i) == path \o <<"-">> \o toString(i)

\* The traversal that gives every node below and including node its path
\* (buildLayoutTree, findNodeAtPosition, collectPaths): the pairs
\* <<node, path>>.
RECURSIVE traverse(_, _, _)
traverse(A, node, path) ==
    {<<node, path>>}
        \cup UNION { traverse(A, A.children[node][i], childPath(path, i - 1)) :
                        i \in 1..Len(A.children[node]) }

\* The path the traversal gave node is handed to getNodeByPath.
ResolvePathOf(node) ==
    /\ \E e \in traverse(ast, 1, RootString) :
          /\ e[1] = node
          /\ call' = [fn |-> "resolvePath", node |-> node, path |-> e[2],
                      result |-> getNodeByPath(ast, e[2])]
    /\ UNCHANGED <<decorations, isAllExpanded, sheetVars, debounceVars,
                   parseVars, parserVars>>
    /\ UNCHANGED <<ast, expandedNodes, cursorNodePath, allNodes, camera, size,
                   dragRef, pinchRef, hoveredRef, prevAstRootRef, prevSizeRef,
                   fingers, emitted, last, steps>>

-----------------------------------------------------------------------------
(* The editor extension: the highlight field.                              *)

Min(a, b) == IF a < b THEN a ELSE b

\* The effect value null.
NoRange == [null |-> TRUE, from |-> 0, to |-> 0]

\* A seeded fault for highlightUpdate: the range is taken as it comes.
highlightUpdateUnclamped(value, docLength) ==
    IF value.null \/ value.from = value.to THEN <<>>
    ELSE <<[from |-> value.from, to |-> value.to]>>

\* highlightField.update for a transaction with a setHighlightEffect of the
\* given value on a document of length docLength: the new field value.
highlightUpdate(value, docLength) ==
    IF value.null THEN <<>>
    ELSE LET safeFrom == Max(0, Min(value.from, docLength))
             safeTo   == Max(safeFrom, Min(value.to, docLength))
         IN  IF safeFrom = safeTo THEN <<>>
             ELSE <<[from |-> safeFrom, to |-> safeTo]>>

\* setHighlight(view, value): the transaction is dispatched and the field
\* updated.
SetHighlight(value, docLength) ==
    /\ Step
    /\ decorations' = highlightUpdate(value, docLength)
    /\ call' = [fn |-> "setHighlight", value |-> value, docLength |-> docLength]
    /\ UNCHANGED <<isAllExpanded, sheetVars, debounceVars, parseVars,
                   parserVars>>
    /\ UNCHANGED <<ast, expandedNodes, cursorNodePath, allNodes, camera, size,
                   dragRef, pinchRef, hoveredRef, prevAstRootRef, prevSizeRef,
                   fingers, emitted, last>>

-----------------------------------------------------------------------------
(* The owner: toggling a node.                                             *)

\* toggleNode(path), called by the list view or through onToggleNode, for any
\* path: the expanded set is replaced and the view renders again.
ToggleExpand(path) ==
    /\ Commit("toggle", 0, 0, ast, toggleNode(expandedNodes, path), cursorNodePath,
              size, TRUE, TRUE, TRUE)
    /\ emitted' = <<>>
    /\ call' = [fn |-> "toggleNode", path |-> path]
    /\ UNCHANGED <<dragRef, pinchRef, hoveredRef, fingers, steps>>
    /\ UNCHANGED <<decorations, isAllExpanded, sheetVars, debounceVars,
                   parseVars, parserVars>>

-----------------------------------------------------------------------------
(* The owner: the debounced cursor.                                        *)

DebounceMs == 50        \* the delay of the timeout
TickMs == 25            \* the clock advances in steps of TickMs
MaxTime == 125          \* the clock stops here
MaxNotifications == 3   \* calls of handleCursorChange in one behaviour
MaxDocLen == 2          \* the longest document

\* The source ranges a node may have in a document of MaxDocLen characters.
NodeRanges ==
    { [null |-> FALSE, from |-> f[1], to |-> f[2]] :
        f \in { g \in (0..MaxDocLen) \X (0..MaxDocLen) : g[1] <= g[2] } }

\* A seeded fault for pendingAfterClear: the earlier timeout is left alone.
pendingWithoutClear(pending, ref) == pending

\* window.clearTimeout(cursorDebounceRef.current) when the ref is set: the
\* timeouts still pending.
pendingAfterClear(pending, ref) ==
    IF ref # 0 THEN { t \in pending : t.id # ref } ELSE pending

\* Time passes.  A timeout may run late, so the clock does not wait for one.
Tick ==
    /\ now + TickMs <= MaxTime
    /\ now' = now + TickMs
    /\ UNCHANGED <<ast, expandedNodes, cursorNodePath, allNodes, camera, size,
                   dragRef, pinchRef, hoveredRef, prevAstRootRef, prevSizeRef,
                   fingers, emitted, last, steps>>
    /\ UNCHANGED <<call, decorations, isAllExpanded, sheetVars, timers,
                   cursorDebounceRef,
                   notified, lookups,
                   parseVars, parserVars>>

\* handleCursorChange(position).  The position is named by the path that
\* findNodeAtPosition returns for it (NoNode for null); the timeout keeps the
\* cursorNodePath of the render that made the handler.
HandleCursorChange(position) ==
    /\ Len(notified) < MaxNotifications
    /\ notified' = Append(notified, [position |-> position, at |-> now])
    /\ cursorDebounceRef' = Len(notified) + 1
    /\ timers' = pendingAfterClear(timers, cursorDebounceRef)
                    \cup { [id |-> Len(notified) + 1, due |-> now + DebounceMs,
                            position |-> position, cursorNodePath |-> cursorNodePath,
                            astSnap |-> snap] }
    /\ UNCHANGED <<ast, expandedNodes, cursorNodePath, allNodes, camera, size,
                   dragRef, pinchRef, hoveredRef, prevAstRootRef, prevSizeRef,
                   fingers, emitted, last, steps>>
    /\ UNCHANGED <<call, decorations, isAllExpanded, sheetVars, now, lookups,
                   parseVars,
                   parserVars>>

\* The timeout t runs, not before it is due: the tree lookup, and for a new
\* node the cursor path, the expansion of the path to it and, in explorer
\* mode, the highlight of the node's source range.
CursorTimeout(t, explorer, range) ==
    /\ t \in timers
    /\ now >= t.due
    /\ timers' = timers \ {t}
    /\ lookups' = Append(lookups, [id |-> t.id, position |-> t.position, at |-> now])
    /\ IF t.position # NoNode /\ t.position # t.cursorNodePath
       THEN /\ Commit("cursor", 0, 0, ast, expandPathToNode(t.position), t.position,
                      size, TRUE, TRUE, TRUE)
            /\ emitted' = <<>>
            /\ decorations' = IF explorer THEN highlightUpdate(range, MaxDocLen)
                              ELSE decorations
            /\ snap' = IF explorer /\ t.astSnap = "collapsed" THEN "half" ELSE snap
            /\ currentHeight' = syncHeight(isDragging, snap', windowHeight,
                                           currentHeight)
       ELSE UNCHANGED <<ast, expandedNodes, cursorNodePath, allNodes, camera, size,
                        prevAstRootRef, prevSizeRef, emitted, last, decorations,
                        snap, currentHeight>>
    /\ UNCHANGED <<dragRef, pinchRef, hoveredRef, fingers, steps>>
    /\ UNCHANGED <<call, isAllExpanded, isDragging, dragState, windowHeight, now,
                   cursorDebounceRef, notified, parseVars, parserVars>>

-----------------------------------------------------------------------------
(* The owner: parsing the code.                                            *)

Languages == {"rust", "python", "go"}

\* SAMPLE_CODE[newLanguage]
SampleCode(lang) ==
    IF lang = "rust" THEN "sample rust"
    ELSE IF lang = "python" THEN "sample python" ELSE "sample go"

Codes == { SampleCode(l) : l \in Languages } \cup {"edited"}

\* The tree parser.parse returns: a function of the code and the language.
ParseTree(code_, lang) ==
    IF code_ = "edited" THEN AstOf(<<1, 2, 2>>, <<20, 20, 20, 152>>)
    ELSE IF lang = "rust" THEN AstOf(<<1, 1>>, <<20, 20, 152>>)
    ELSE AstOf(<<1, 2>>, <<20, 20, 20>>)

\* The end of parseCode: setParseResult(result) and the expanded set of the
\* new tree; the view renders the new tree.
ParseDone(code_, lang) ==
    /\ parseResult' = [code |-> code_, language |-> lang]
    /\ Commit("reparse", 0, 0, ParseTree(code_, lang),
              initialExpanded(ParseTree(code_, lang)), cursorNodePath, size,
              TRUE, TRUE, TRUE)
    /\ emitted' = <<>>

\* The effect that calls parseCode after a render with a new code or
\* language.  With the grammar loaded, parser.parse and the rest of
\* parseCode run as microtasks of the same task, before any other event;
\* otherwise the call awaits Parser.Language.load.
ParseCode(code_, lang) ==
    /\ Step
    /\ <<code_, lang>> # <<code, language>>
    /\ code' = code_
    /\ language' = lang
    /\ IF lang \in languages
       THEN /\ ParseDone(code_, lang)
            /\ UNCHANGED parsing
       ELSE /\ parsing' = parsing \cup {[seq |-> steps, code |-> code_, language |-> lang]}
            /\ UNCHANGED <<parseResult, ast, expandedNodes, cursorNodePath, allNodes,
                           camera, size, prevAstRootRef, prevSizeRef, emitted, last>>
    /\ UNCHANGED languages
    /\ UNCHANGED <<dragRef, pinchRef, hoveredRef, fingers>>
    /\ UNCHANGED <<call, decorations, isAllExpanded, sheetVars, debounceVars,
                   parserVars>>

\* handleLanguageChange(newLanguage)
HandleLanguageChange(newLanguage) == ParseCode(SampleCode(newLanguage), newLanguage)

\* handleCodeChange(value)
HandleCodeChange(value) == ParseCode(value, language)

\* Parser.Language.load resolves for the call r, whichever call that is:
\* loadLanguage stores the grammar, parse returns the tree and parseCode
\* displays it.
LanguageLoaded(r) ==
    /\ r \in parsing
    /\ parsing' = parsing \ {r}
    /\ languages' = languages \cup {r.language}
    /\ ParseDone(r.code, r.language)
    /\ UNCHANGED <<code, language>>
    /\ UNCHANGED <<dragRef, pinchRef, hoveredRef, fingers, steps>>
    /\ UNCHANGED <<call, decorations, isAllExpanded, sheetVars, debounceVars,
                   parserVars>>

-----------------------------------------------------------------------------
(* The owner: expand all, collapse all.                                    *)

\* collectPaths(node, path): the paths added to allPaths, the path of node
\* and of every node below it.
RECURSIVE collectPaths(_, _, _)
collectPaths(A, node, path) ==
    {path}
        \cup UNION { collectPaths(A, A.children[node][i], Append(path, i - 1)) :
                        i \in 1..Len(A.children[node]) }

\* !parseResult?.ast
NoAst == parseResult = [code |-> "", language |-> ""]

\* toggleExpandCollapseAll()
ToggleExpandCollapseAll ==
    /\ IF isAllExpanded
       THEN /\ Commit("collapseAll", 0, 0, ast, {root}, cursorNodePath, size,
                      TRUE, TRUE, TRUE)
            /\ emitted' = <<>>
            /\ isAllExpanded' = FALSE
       ELSE IF NoAst
       THEN UNCHANGED <<ast, expandedNodes, cursorNodePath, allNodes, camera, size,
                        prevAstRootRef, prevSizeRef, emitted, last, isAllExpanded>>
       ELSE /\ Commit("expandAll", 0, 0, ast, collectPaths(ast, 1, root), cursorNodePath,
                      size, TRUE, TRUE, TRUE)
            /\ emitted' = <<>>
            /\ isAllExpanded' = TRUE
    /\ UNCHANGED <<dragRef, pinchRef, hoveredRef, fingers, steps>>
    /\ UNCHANGED <<call, decorations, sheetVars, debounceVars, parseVars, parserVars>>

-----------------------------------------------------------------------------
(* The bottom sheet.                                                       *)

\* No prop, state or ref of TreeView changes.
ViewUnchanged ==
    UNCHANGED <<ast, expandedNodes, cursorNodePath, allNodes, camera, size,
                dragRef, pinchRef, hoveredRef, prevAstRootRef, prevSizeRef,
                fingers, emitted, last, steps>>

\* What every handler of the sheet leaves alone.
SheetOnly ==
    /\ ViewUnchanged
    /\ UNCHANGED <<decorations, isAllExpanded, debounceVars, parseVars, parserVars>>

\* The handle is rendered unless the pill is.
HandleRendered == ~(snap = "collapsed" /\ ~isDragging)

\* The pill's onClick: onSnapChange('half')
PillClick ==
    /\ ~HandleRendered
    /\ snap' = "half"
    /\ currentHeight' = syncHeight(isDragging, "half", windowHeight, currentHeight)
    /\ call' = [fn |-> "pillClick"]
    /\ UNCHANGED <<isDragging, dragState, windowHeight>>
    /\ SheetOnly

\* handleTouchStart(e), e.touches[0].clientY = clientY
HandleTouchStart(clientY) ==
    /\ HandleRendered
    /\ dragState' = [startY |-> clientY, startHeight |-> currentHeight,
                     moved |-> FALSE]
    /\ isDragging' = TRUE
    /\ call' = [fn |-> "handleTouchStart"]
    /\ UNCHANGED <<snap, currentHeight, windowHeight>>
    /\ SheetOnly

\* handleTouchMove(e), e.touches[0].clientY = clientY
HandleTouchMove(clientY) ==
    /\ HandleRendered
    /\ IF dragState = NoDragState
       THEN UNCHANGED <<dragState, currentHeight>>
       ELSE LET deltaY == dragState.startY - clientY
            IN  /\ dragState' = [dragState EXCEPT
                                   !.moved = @ \/ Abs(deltaY) > MovedThreshold]
                /\ currentHeight' =
                       RMax(R(MIN_DRAG_HEIGHT),
                            RMin(RAdd(dragState.startHeight, R(deltaY)),
                                 RMul(R(windowHeight), FULL_RATIO)))
    /\ call' = [fn |-> "handleTouchMove"]
    /\ UNCHANGED <<snap, isDragging, windowHeight>>
    /\ SheetOnly

\* handleTouchEnd()
HandleTouchEnd ==
    /\ HandleRendered
    /\ IF dragState = NoDragState
       THEN UNCHANGED <<snap, currentHeight, isDragging, dragState>>
       ELSE \E newSnap \in {nearestSnap(currentHeight, windowHeight)} :
              /\ snap' = newSnap
              /\ dragState' = NoDragState
              /\ isDragging' = FALSE
              /\ currentHeight' = syncHeight(FALSE, newSnap, windowHeight,
                                             getSnapHeight(newSnap, windowHeight))
    /\ call' = [fn |-> "handleTouchEnd", dragging |-> dragState # NoDragState,
                height |-> currentHeight]
    /\ UNCHANGED windowHeight
    /\ SheetOnly

\* handleHandleTap()
HandleHandleTap ==
    /\ HandleRendered
    /\ IF dragState # NoDragState /\ dragState.moved
       THEN UNCHANGED <<snap, currentHeight>>
       ELSE /\ snap' = "collapsed"
            /\ currentHeight' = syncHeight(isDragging, "collapsed", windowHeight,
                                           currentHeight)
    /\ call' = [fn |-> "handleHandleTap"]
    /\ UNCHANGED <<isDragging, dragState, windowHeight>>
    /\ SheetOnly

\* onResize: setWindowHeight(window.innerHeight)
WindowResize(innerHeight) ==
    /\ innerHeight # windowHeight
    /\ windowHeight' = innerHeight
    /\ currentHeight' = syncHeight(isDragging, snap, innerHeight, currentHeight)
    /\ call' = [fn |-> "onResize"]
    /\ UNCHANGED <<snap, isDragging, dragState>>
    /\ SheetOnly

-----------------------------------------------------------------------------
(* The owner: the node at a position of the editor.                        *)

\* Positions are pairs <<row, column>>.  A positioned tree T has the
\* children of AstOf and, for every node, startPosition and endPosition.

\* A seeded fault for inRange: the end position is taken as exclusive.
inRangeEndExclusive(T, node, row, col) ==
    /\ \/ row > T.startPosition[node][1]
       \/ row = T.startPosition[node][1] /\ col >= T.startPosition[node][2]
    /\ \/ row < T.endPosition[node][1]
       \/ row = T.endPosition[node][1] /\ col < T.endPosition[node][2]

\* inRange of findNodeAtPosition, lines 869-874.
inRange(T, node, row, col) ==
    /\ \/ row > T.startPosition[node][1]
       \/ row = T.startPosition[node][1] /\ col >= T.startPosition[node][2]
    /\ \/ row < T.endPosition[node][1]
       \/ row = T.endPosition[node][1] /\ col <= T.endPosition[node][2]

RECURSIVE findNodeAtPosition(_, _, _, _, _)
RECURSIVE findNodeInChildren(_, _, _, _, _, _)

\* The for loop of findNodeAtPosition (lines 879-888) from child i on (i is
\* 1-based here: the child's path ends in i - 1); the path is returned when
\* no child gives a result.
findNodeInChildren(T, node, row, col, path, i) ==
    IF i > Len(T.children[node]) THEN path
    ELSE LET childResult == findNodeAtPosition(T, T.children[node][i], row, col,
                                               Append(path, i - 1))
         IN  IF childResult # NoNode THEN childResult
             ELSE findNodeInChildren(T, node, row, col, path, i + 1)

\* findNodeAtPosition(node, row, col, path); NoNode for null.
findNodeAtPosition(T, node, row, col, path) ==
    IF ~inRange(T, node, row, col) THEN NoNode
    ELSE findNodeInChildren(T, node, row, col, path, 1)

\* A direct call of findNodeAtPosition on the root of T.
FindNodeAtPosition(T, row, col) ==
    /\ call' = [fn |-> "findNodeAtPosition", tree |-> T, row |-> row, col |-> col,
                result |-> findNodeAtPosition(T, 1, row, col, root)]
    /\ UNCHANGED <<ast, expandedNodes, cursorNodePath, allNodes, camera, size,
                   dragRef, pinchRef, hoveredRef, prevAstRootRef, prevSizeRef,
                   fingers, emitted, last, steps>>
    /\ UNCHANGED <<decorations, isAllExpanded, sheetVars, debounceVars,
                   parseVars, parserVars>>

-----------------------------------------------------------------------------
(* The parser singleton.                                                   *)

\* A seeded fault for initStarts: the promise in flight is not looked at.
initStartsWithoutPromiseCheck(parser_, promise) == ~parser_

\* init() goes on to call Parser.init: neither this.parser nor
\* this.initPromise is set (lines 39-40).
initStarts(parser_, promise) == ~parser_ /\ promise = "null"

\* The body of init(): what the call returns ("done" for the return at line
\* 39, "promise" for this.initPromise), and the initialisation it begins.
InitBody ==
    /\ callers' = Append(callers, IF parser THEN "done" ELSE "promise")
    /\ IF initStarts(parser, initPromise)
       THEN /\ initPromise' = "pending"
            /\ performed' = [performed EXCEPT !.init = @ + 1]
       ELSE UNCHANGED <<initPromise, performed>>

MaxCallers == 3     \* direct calls of init() in one behaviour
MaxParses == 2      \* calls of parse() in one behaviour

\* A call of parser.init() (the owner's effect at mount, or anyone's).
CallInit ==
    /\ Len(callers) < MaxCallers
    /\ InitBody
    /\ UNCHANGED <<parser, parses>>
    /\ ViewUnchanged
    /\ UNCHANGED <<call, decorations, isAllExpanded, sheetVars, debounceVars,
                   parseVars>>

\* Parser.init settles: the parser is constructed (ok), or Parser.init or
\* new Parser() threw and the promise is rejected.
InitSettles(ok) ==
    /\ initPromise = "pending"
    /\ IF ok
       THEN /\ parser' = TRUE
            /\ performed' = [performed EXCEPT !.parser = @ + 1]
            /\ initPromise' = "fulfilled"
       ELSE /\ initPromise' = "rejected"
            /\ UNCHANGED <<parser, performed>>
    /\ UNCHANGED <<callers, parses>>
    /\ ViewUnchanged
    /\ UNCHANGED <<call, decorations, isAllExpanded, sheetVars, debounceVars,
                   parseVars>>

\* The keys of LANGUAGE_WASM that the model uses.
Supported == Languages

\* A seeded fault for caught: the exception leaves parse().
uncaught(error, lang) ==
    [ settled |-> "rejected", success |-> FALSE, ast |-> FALSE, error |-> error,
      language |-> lang ]

\* The catch of parse (lines 124-130): the failure result.
caught(error, lang) ==
    [ settled |-> "resolved", success |-> FALSE, ast |-> FALSE, error |-> error,
      language |-> lang ]

\* The return at lines 119-123.
parsed(lang) ==
    [ settled |-> "resolved", success |-> TRUE, ast |-> TRUE, error |-> "",
      language |-> lang ]

NoResult ==
    [ settled |-> "pending", success |-> FALSE, ast |-> FALSE, error |-> "",
      language |-> "" ]

\* setLanguage, parser.parse and nodeToAst (lines 114-117), which may throw.
runParser(lang, throws) ==
    IF throws THEN caught("parse threw", lang) ELSE parsed(lang)

\* parser.parse(code, language) up to its first await: the call of init().
ParseCall(lang) ==
    /\ Len(parses) < MaxParses
    /\ InitBody
    /\ parses' = Append(parses, [language |-> lang, pc |-> "init", result |-> NoResult])
    /\ UNCHANGED parser
    /\ ViewUnchanged
    /\ UNCHANGED <<call, decorations, isAllExpanded, sheetVars, debounceVars,
                   parseVars>>

\* The call i of parse goes on after await this.init(): the rejection of
\* the promise is caught; otherwise loadLanguage calls init() again, then
\* returns the cached grammar, throws for an unsupported language or awaits
\* Parser.Language.load.
ParseAfterInit(i, throws) ==
    /\ parses[i].pc = "init"
    /\ parser \/ initPromise = "rejected"
    /\ LET lang == parses[i].language
       IN  IF ~parser
           THEN /\ parses' = [parses EXCEPT ![i].pc = "done",
                                            ![i].result = caught("init failed", lang)]
                /\ UNCHANGED <<callers, initPromise, performed, languages>>
           ELSE /\ InitBody
                /\ UNCHANGED languages
                /\ parses' =
                     IF lang \in languages
                     THEN [parses EXCEPT ![i].pc = "done",
                                         ![i].result = runParser(lang, throws)]
                     ELSE IF lang \notin Supported
                     THEN [parses EXCEPT ![i].pc = "done",
                                         ![i].result = caught("Unsupported language", lang)]
                     ELSE [parses EXCEPT ![i].pc = "load"]
    /\ UNCHANGED parser
    /\ ViewUnchanged
    /\ UNCHANGED <<call, decorations, isAllExpanded, sheetVars, debounceVars,
                   code, language,
                   parsing, parseResult>>

\* Parser.Language.load settles for the call i of parse.
LoadSettles(i, ok, throws) ==
    /\ parses[i].pc = "load"
    /\ LET lang == parses[i].language
       IN  IF ok
           THEN /\ languages' = languages \cup {lang}
                /\ parses' = [parses EXCEPT ![i].pc = "done",
                                            ![i].result = runParser(lang, throws)]
           ELSE /\ UNCHANGED languages
                /\ parses' = [parses EXCEPT ![i].pc = "done",
                                            ![i].result = caught("load failed", lang)]
    /\ UNCHANGED <<parser, initPromise, performed, callers>>
    /\ ViewUnchanged
    /\ UNCHANGED <<call, decorations, isAllExpanded, sheetVars, debounceVars,
                   code, language,
                   parsing, parseResult>>

-----------------------------------------------------------------------------
(* Specifications.                                                         *)

\* The layout of every small tree under every sequence of toggles, in a view
\* whose size has not been observed yet.
InitLayout == \E A \in Asts : Mounted(A)

ToggleVisible ==
    \E i \in 1..Len(allNodes) :
        /\ hasChildren(allNodes, i)
        /\ ToggleNode(allNodes[i].id)

NextLayout == ToggleVisible

SpecLayout == InitLayout /\ [][NextLayout]_vars

\* hitTest on the layouts of small trees.
MaxHitNodes == 4
FarAway == 1000000

HitAsts == { A \in Asts : Len(SetToSortedSeq(DOMAIN A.children)) <= MaxHitNodes }

InitHit == \E A \in HitAsts : Mounted(A)

\* World points around a node: inside it, on its edges and just outside.
ProbesOf(n) ==
    LET l == n.x
        r == RAdd(n.x, R(n.width))
        t == R(n.y)
        b == R(n.y + n.height)
        one == R(1)
    IN  { <<RAdd(l, one), RAdd(t, one)>>, <<RSub(r, one), RSub(b, one)>>,
          <<l, t>>, <<r, b>>,
          <<RSub(l, one), RAdd(t, one)>>, <<RAdd(r, one), RAdd(t, one)>>,
          <<RAdd(l, one), RSub(t, one)>>, <<RAdd(l, one), RAdd(b, one)>> }

FarProbes == { <<R(FarAway), R(FarAway)>>, <<R(-FarAway), R(-FarAway)>>,
               <<R(-FarAway), R(16)>>, <<R(30), R(FarAway)>> }

HitTestSome ==
    \/ \E i \in 1..Len(allNodes) : \E p \in ProbesOf(allNodes[i]) : HitTestAt(p[1], p[2])
    \/ \E p \in FarProbes : HitTestAt(p[1], p[2])

NextHit == HitTestSome \/ ToggleVisible

SpecHit == InitHit /\ [][NextHit]_vars

\* The view under events.
ViewAsts == { AstOf(<<1, 1>>, <<20, 20, 152>>), AstOf(<<1, 2>>, <<20, 20, 20>>) }
Sizes == { <<100, 300>>, <<120, 300>>, <<400, 300>> }
Points == { <<200, 70>>, <<202, 73>>, <<200, 150>>, <<20, 20>> }
Pinches == { << <<100, 150>>, <<200, 150>> >>, << <<135, 130>>, <<165, 170>> >> }
WheelPoints == { <<200, 70>>, <<20, 20>> }
ThreeFingers == << <<100, 150>>, <<200, 150>>, <<150, 200>> >>

\* The path of source node a, read off the AstNode tree alone.
RECURSIVE AstPath(_, _)
AstPath(A, a) ==
    IF a = 1 THEN <<>>
    ELSE LET b == CHOOSE b \in DOMAIN A.children : includes(A.children[b], a)
         IN  Append(AstPath(A, b), indexOf(A.children[b], a))

AstPaths(A) == { AstPath(A, a) : a \in DOMAIN A.children }

\* The view after it is mounted and the ResizeObserver has reported the
\* first size: the state Resize leads to from Mounted(A).
Observed(A, sz) ==
    /\ ast = A
    /\ expandedNodes = initialExpanded(A)
    /\ cursorNodePath = NoNode
    /\ allNodes = layoutOf(A, expandedNodes)
    /\ size = sz
    /\ \E e \in { effectsOf(A, allNodes, sz, NoNode, InitialCamera, NoRootKind,
                             NoSize, TRUE, TRUE) } :
          /\ camera = e.camera
          /\ prevAstRootRef = e.prevAstRootRef
          /\ prevSizeRef = e.prevSizeRef
          /\ last = [ op |-> "resize", x |-> 0, y |-> 0,
                      cam |-> InitialCamera, fit |-> e.fit, hit |-> NoHit ]
    /\ dragRef = NoDrag
    /\ pinchRef = NoPinch
    /\ hoveredRef = NoNode
    /\ fingers = 0
    /\ emitted = <<>>
    /\ steps = 0
    /\ AppInit

InitView ==
    \E A \in ViewAsts : \E s \in Sizes : Observed(A, [width |-> s[1], height |-> s[2]])

NextView ==
    \/ \E s \in Sizes : Resize(s[1], s[2])
    \/ \E A \in ViewAsts : Reparse(A)
    \/ \E p \in AstPaths(ast) : CursorTo(p)
    \/ FitToView
    \/ ZoomIn
    \/ ZoomOut
    \/ \E p \in WheelPoints : \E deltaY \in {-100, 100} : Wheel(p[1], p[2], deltaY)
    \/ \E p \in Points : PointerDown(p[1], p[2])
    \/ PointerDownTouch
    \/ \E p \in Points : PointerMove(p[1], p[2])
    \/ PointerUpIdle
    \/ \E p \in Points : PointerUp(p[1], p[2])
    \/ \E p \in Points : TouchStart(<<p>>)
    \/ \E t \in Pinches : TouchStart(t)
    \/ TouchStart(ThreeFingers)
    \/ \E t \in Pinches : PinchMove(t)
    \/ \E p \in Points : TouchDrag(p[1], p[2])
    \/ TouchMoveIgnored
    \/ \E n \in 0..(MaxFingers - 1) : TouchEnd(n)

SpecView == InitView /\ [][NextView]_vars

-----------------------------------------------------------------------------
(* Vocabulary of the properties.                                           *)

Nodes == { allNodes[i] : i \in 1..Len(allNodes) }

IsPrefix(p, q) == Len(p) <= Len(q) /\ SubSeq(q, 1, Len(p)) = p

\* p and q lie in two distinct sibling subtrees, p's being the left one.
LeftOf(p, q) ==
    \E k \in 1..Len(p) :
        /\ k <= Len(q)
        /\ SubSeq(p, 1, k - 1) = SubSeq(q, 1, k - 1)
        /\ p[k] < q[k]

Right(n) == RAdd(n.x, R(n.width))
Centre(n) == RAdd(n.x, RDiv(R(n.width), R(2)))

\* C1: after layoutTree, whenever two nodes of the same depth lie in two
\* distinct sibling subtrees, the node of the left subtree ends at least
\* NODE_GAP_X left of the node of the right subtree:
\* left.x + left.width + 24 <= right.x.
C1_SiblingSubtreesSeparated ==
    \A a, b \in Nodes :
        (Len(a.id) = Len(b.id) /\ LeftOf(a.id, b.id))
            => RLe(RAdd(Right(a), R(NODE_GAP_X)), b.x)

\* Witness of C1: two cousins whose subtrees were pushed apart by apportion:
\* they are exactly NODE_GAP_X apart while their parents are further apart.
C1_Witness ==
    \E a, b, pa, pb \in Nodes :
        /\ Len(a.id) = Len(b.id) /\ LeftOf(a.id, b.id)
        /\ pa.id = a.parent /\ pb.id = b.parent /\ pa.id # pb.id
        /\ RAdd(Right(a), R(NODE_GAP_X)) = b.x
        /\ RLt(RAdd(Right(pa), R(NODE_GAP_X)), pb.x)

ProperPrefixes(p) == { SubSeq(p, 1, k) : k \in 0..(Len(p) - 1) }

\* C2: a layout node has exactly its source children, in order, child i at
\* path(N)-i, if its path is expanded, and no children otherwise; a source
\* node is in the layout iff all its proper ancestors' paths are expanded.
C2_ChildrenIffExpanded ==
    /\ \A n \in Nodes :
          LET kids == ast.children[n.node]
          IN  IF n.id \in expandedNodes
              THEN /\ Len(n.children) = Len(kids)
                   /\ \A i \in 1..Len(kids) :
                         /\ n.children[i] = Append(n.id, i - 1)
                         /\ \E c \in Nodes : c.id = n.children[i] /\ c.node = kids[i]
              ELSE n.children = <<>>
    /\ \A a \in DOMAIN ast.children :
          (\E n \in Nodes : n.node = a)
              <=> (ProperPrefixes(AstPath(ast, a)) \subseteq expandedNodes)
    /\ \A n \in Nodes : n.id = AstPath(ast, n.node)
    /\ \A i, j \in 1..Len(allNodes) : allNodes[i].id = allNodes[j].id => i = j

\* Witness of C2: a collapsed node with source children next to an expanded
\* node with children, below the root.
C2_Witness ==
    \E n, m \in Nodes :
        /\ n.id # root /\ m.id # root
        /\ n.id \notin expandedNodes /\ Len(ast.children[n.node]) > 0
        /\ m.id \in expandedNodes /\ Len(m.children) > 0

NodeById(p) == CHOOSE n \in Nodes : n.id = p
FirstChild(n) == NodeById(n.children[1])
LastChild(n) == NodeById(n.children[Len(n.children)])

\* The claim of C3 as stated: a parent is centred over the midpoint of the
\* centres of its first and last visible child.
C3_CentredOverChildCentres ==
    \A n \in Nodes :
        Len(n.children) > 0 =>
            Centre(n) = RDiv(RAdd(Centre(FirstChild(n)), Centre(LastChild(n))), R(2))

\* C3 (amended): a node with visible children is centred over the span of
\* its children, from the left edge of the first to the right edge of the
\* last: x + width/2 = (first.x + last.x + last.width) / 2.
C3_CentredOverChildSpan ==
    \A n \in Nodes :
        Len(n.children) > 0 =>
            Centre(n) = RDiv(RAdd(FirstChild(n).x, Right(LastChild(n))), R(2))

\* Witness of C3: a parent that has a left sibling (so it was placed by its
\* sibling and its children were offset through mod) and whose first and
\* last child differ in width.
C3_Witness ==
    \E n \in Nodes :
        /\ Len(n.children) > 1
        /\ n.id # root /\ n.id[Len(n.id)] > 0
        /\ FirstChild(n).width # LastChild(n).width

\* C4: the least x over the laid-out nodes is exactly 0.
C4_MinXIsZero ==
    /\ \A n \in Nodes : RLe(R(0), n.x)
    /\ \E n \in Nodes : n.x = R(0)

\* Witness of C4: a layout in which the root is not the leftmost node.
C4_Witness ==
    /\ Len(allNodes) > 1
    /\ RLt(R(0), allNodes[1].x)

\* C5: every node has y = depth * 84, depth being its number of levels below
\* the root, which is also the depth the layout builder recorded.
C5_YIsDepthTimes84 ==
    \A n \in Nodes : n.y = Len(n.id) * 84 /\ n.depth = Len(n.id)

\* Witness of C5: a laid-out node three levels below the root.
C5_Witness == \E n \in Nodes : Len(n.id) = 3 /\ n.y = 252

-----------------------------------------------------------------------------
(* The camera.                                                             *)

WheelOps == {"wheelDown", "wheelUp"}
ZoomOps == WheelOps \cup {"pinch", "zoomIn", "zoomOut"}

\* The greatest and the least element of a finite set of finite numbers.
RGreatest(S) == CHOOSE m \in S : \A o \in S : RLe(o, m)
RLeast(S) == CHOOSE m \in S : \A o \in S : RLe(m, o)

\* C6: in every state of a view with a non-zero viewport, after any sequence
\* of auto-fit, fit-to-view, wheel, pinch, zoom button, pan and
\* scroll-into-view operations, the camera zoom lies in [0.1, 3.0].
C6_ZoomInRange ==
    (size.width # 0 /\ size.height # 0) =>
        /\ RLe(<<1, 10>>, camera.zoom)
        /\ RLe(camera.zoom, <<3, 1>>)

\* The last commit set the camera by auto-fit, or the last event was
\* fit-to-view.
Fitted == last.op = "fitToView" \/ last.fit

\* C7: auto-fit and fit-to-view set zoom to
\* min(1, (viewportWidth - 120) / max(1, treeWidth),
\*        (viewportHeight - 120) / max(1, treeHeight)),
\* treeWidth and treeHeight being the greatest x + width and y + height over
\* the laid-out nodes; the zoom is never greater than 1.
C7_FitZoom ==
    Fitted =>
        LET treeWidth  == RGreatest({ Right(n) : n \in Nodes })
            treeHeight == RGreatest({ R(n.y + n.height) : n \in Nodes })
            scaleX == RDiv(R(size.width - 120), RGreatest({R(1), treeWidth}))
            scaleY == RDiv(R(size.height - 120), RGreatest({R(1), treeHeight}))
        IN  /\ camera.zoom = RLeast({R(1), scaleX, scaleY})
            /\ RLe(camera.zoom, R(1))

\* A fit of a tree that does not fit at zoom 1.
C7_Witness == Fitted /\ RLt(R(0), camera.zoom) /\ RLt(camera.zoom, R(1))

\* The screen point the last zoom operation is anchored at: the pointer for
\* the wheel, the initial midpoint for a pinch, the viewport centre for the
\* buttons.
AnchorOfLast ==
    IF last.op \in WheelOps THEN <<R(last.x), R(last.y)>>
    ELSE IF last.op = "pinch" THEN <<pinchRef.midX, pinchRef.midY>>
    ELSE <<RDiv(R(size.width), R(2)), RDiv(R(size.height), R(2))>>

\* C8: after every zoom operation (wheel, pinch move, zoom buttons) the world
\* point that was under the anchor before it is under the anchor again:
\* (anchor - cam.x) / cam.zoom * cam'.zoom + cam'.x = anchor, and likewise
\* for y, also when the new zoom is clamped.
C8_ZoomKeepsAnchor ==
    last.op \in ZoomOps =>
        /\ RAdd(RMul(RDiv(RSub(AnchorOfLast[1], last.cam.x), last.cam.zoom),
                     camera.zoom), camera.x) = AnchorOfLast[1]
        /\ RAdd(RMul(RDiv(RSub(AnchorOfLast[2], last.cam.y), last.cam.zoom),
                     camera.zoom), camera.y) = AnchorOfLast[2]

-----------------------------------------------------------------------------
(* Hit testing and the release of a press.                                 *)

\* The world point (wx, wy) is inside node n's rectangle, edges excluded.
StrictlyInside(n, wx, wy) ==
    /\ RLt(n.x, wx) /\ RLt(wx, Right(n))
    /\ RLt(R(n.y), wy) /\ RLt(wy, R(n.y + n.height))

\* The world point (wx, wy) is in node n's rectangle, edges included.
Covers(n, wx, wy) ==
    /\ RLe(n.x, wx) /\ RLe(wx, Right(n))
    /\ RLe(R(n.y), wy) /\ RLe(wy, R(n.y + n.height))

\* C9: hitTest over the visible node list returns node N for every world
\* point strictly inside N's rectangle and inside the rectangle of no node
\* later in draw order, and returns none for every point outside all the
\* rectangles, however far away.
C9_HitTest ==
    last.op = "hitTest" =>
        /\ \A i \in 1..Len(allNodes) :
              ( /\ StrictlyInside(allNodes[i], last.x, last.y)
                /\ \A j \in (i + 1)..Len(allNodes) :
                       ~StrictlyInside(allNodes[j], last.x, last.y) )
              => last.hit = i
        /\ (\A i \in 1..Len(allNodes) : ~Covers(allNodes[i], last.x, last.y))
              => last.hit = NoHit

\* A point strictly inside a node that is not the root was hit-tested.
C9_Witness ==
    /\ last.op = "hitTest"
    /\ last.hit > 1
    /\ StrictlyInside(allNodes[last.hit], last.x, last.y)

\* The node of nodes drawn last among those covering the screen point
\* (sx, sy) under camera cam; 0 if there is none.
TopNodeAt(nodes, cam, sx, sy) ==
    LET wx == RDiv(RSub(R(sx), cam.x), cam.zoom)
        wy == RDiv(RSub(R(sy), cam.y), cam.zoom)
        covering == { i \in 1..Len(nodes) : Covers(nodes[i], wx, wy) }
    IN  IF covering = {} THEN 0
        ELSE CHOOSE i \in covering : \A j \in covering : j <= i

Callback(cb, path) == [cb |-> cb, path |-> path]

\* A step that is the release of a press: a pointerup, or a touchend that
\* leaves no finger on the canvas, with a press recorded.
ReleaseStep ==
    /\ steps' = steps + 1
    /\ ~dragRef.null
    /\ \/ last'.op = "pointerup"
       \/ last'.op = "touchend" /\ fingers' = 0

\* The node under the point the released press is taken to be at: the point
\* of the release for a pointerup, the point where the press began for a
\* touchend (the only point onTouchEnd has).
NodeAtRelease(atOrigin) ==
    IF atOrigin
    THEN TopNodeAt(allNodes, camera, dragRef.startX, dragRef.startY)
    ELSE TopNodeAt(allNodes, camera, last'.x, last'.y)

SourceChildren(h) == Len(ast.children[allNodes[h].node]) > 0

DragMoveStep ==
    /\ steps' = steps + 1
    /\ dragRef.active
    /\ last'.op \in {"pointermove", "touchmove"}

\* The pointer is more than MOVE_THRESHOLD pixels from (ox, oy) on some axis.
FarFrom(ox, oy, px, py) ==
    Abs(px - ox) > MOVE_THRESHOLD \/ Abs(py - oy) > MOVE_THRESHOLD

\* C11: a move during an active drag sets the moved flag when the pointer is
\* more than 3 pixels from the origin of the drag on either axis, never
\* clears it, and sets the camera offset to the offset at the start of the
\* drag plus (pointer - origin), unclamped, the zoom unchanged; the flag of
\* a drag is cleared only by a press or a release.
C11_DragMovesPan ==
    [][ /\ DragMoveStep =>
            /\ dragRef'.moved <=>
                  (dragRef.moved
                     \/ FarFrom(dragRef.startX, dragRef.startY, last'.x, last'.y))
            /\ camera'.x = RAdd(dragRef.startCamX, R(last'.x - dragRef.startX))
            /\ camera'.y = RAdd(dragRef.startCamY, R(last'.y - dragRef.startY))
            /\ camera'.zoom = camera.zoom
            /\ [dragRef' EXCEPT !.moved = FALSE] = [dragRef EXCEPT !.moved = FALSE]
        /\ (dragRef.moved /\ ~dragRef'.moved) =>
              last'.op \in {"pointerdown", "touchstart", "pointerup", "touchend"}
      ]_vars

\* A drag went beyond the threshold and came back to within it: the flag is
\* still set and the camera is where the latest move put it.
C11_Witness ==
    /\ last.op \in {"pointermove", "touchmove"}
    /\ dragRef.active /\ dragRef.moved
    /\ ~FarFrom(dragRef.startX, dragRef.startY, last.x, last.y)
    /\ <<last.x, last.y>> # <<dragRef.startX, dragRef.startY>>
    /\ camera.x = RAdd(dragRef.startCamX, R(last.x - dragRef.startX))
    /\ camera.x # dragRef.startCamX

\* A step that is a move of the pointer while no drag is active.
HoverMoveStep ==
    /\ steps' = steps + 1
    /\ ~dragRef.active
    /\ last'.op = "pointermove"

\* The path of the node under the screen point (sx, sy), NoNode if there is
\* none.
PathAt(sx, sy) ==
    LET h == TopNodeAt(allNodes, camera, sx, sy)
    IN  IF h = 0 THEN NoNode ELSE allNodes[h].id

\* C12: on a pointer move with no active drag, the node-hover callback fires
\* for the node under the pointer exactly when that node differs from the
\* node hovered at the previous such move, and the node-leave callback fires
\* exactly when the pointer is over no node and a node was hovered before;
\* otherwise nothing fires; the hovered node is remembered across all other
\* events; a move during an active drag fires no callback.
C12_HoverCallbacks ==
    [][ /\ HoverMoveStep =>
            LET p == PathAt(last'.x, last'.y)
            IN  /\ hoveredRef' = p
                /\ emitted' = IF p = hoveredRef THEN <<>>
                              ELSE IF p = NoNode THEN <<Callback("leave", NoNode)>>
                              ELSE <<Callback("hover", p)>>
        /\ DragMoveStep => emitted' = <<>> /\ hoveredRef' = hoveredRef
        /\ hoveredRef' # hoveredRef => HoverMoveStep
      ]_vars

\* The pointer left a hovered node for empty space: the node-leave callback
\* fired.
C12_Witness ==
    /\ last.op = "pointermove"
    /\ ~dragRef.active
    /\ hoveredRef = NoNode
    /\ emitted = <<Callback("leave", NoNode)>>

\* C13: the drag state and the pinch state are never both active, under any
\* interleaving of mouse pointer events and touch events of one, two and
\* three fingers.
C13_DragPinchExclusive == ~(dragRef.active /\ pinchRef.active)

\* The distance between the two fingers of the latest two-finger event.
FingerDistance(l) == hypot(l.x, l.y)

\* C14: a two-finger touchstart records the zoom of the camera and the
\* distance between the fingers; every two-finger move of the pinch sets the
\* zoom to initialZoom * distance / initialDistance, clamped to [0.1, 3],
\* whatever events came in between, and leaves the record of the pinch as it
\* was.
C14_PinchZoom ==
    [][ /\ (steps' = steps + 1 /\ last'.op = "touchstart" /\ fingers' = 2) =>
            /\ pinchRef'.active
            /\ pinchRef'.initialZoom = camera.zoom
            /\ pinchRef'.initialDist = FingerDistance(last')
        /\ (steps' = steps + 1 /\ last'.op = "pinch") =>
            /\ pinchRef.active /\ pinchRef' = pinchRef
            /\ camera'.zoom =
                 RMin(R(3), RMax(<<1, 10>>,
                      RDiv(RMul(pinchRef.initialZoom, R(FingerDistance(last'))),
                           R(pinchRef.initialDist))))
      ]_vars

\* A pinch that began at zoom 1 was spread to twice its distance, after
\* another event had changed the zoom in between: the zoom is 2.
C14_Witness ==
    /\ last.op = "pinch"
    /\ pinchRef.active /\ pinchRef.initialZoom = R(1)
    /\ FingerDistance(last) = 2 * pinchRef.initialDist
    /\ last.cam.zoom # R(1)
    /\ camera.zoom = R(2)

\* C15: every wheel event is a zoom-at-point anchored at the pointer: a
\* positive deltaY sets the zoom to clamp(zoom * 0.9, 0.1, 3), a negative one
\* to clamp(zoom * 1.1, 0.1, 3), and the world point that was under the
\* pointer before the event is under the pointer after it.
C15_WheelZoomsAtPointer ==
    last.op \in WheelOps =>
        /\ camera.zoom =
             RMin(R(3), RMax(<<1, 10>>,
                  RMul(last.cam.zoom,
                       IF last.op = "wheelDown" THEN <<9, 10>> ELSE <<11, 10>>)))
        /\ RAdd(RMul(RDiv(RSub(R(last.x), last.cam.x), last.cam.zoom), camera.zoom),
                camera.x) = R(last.x)
        /\ RAdd(RMul(RDiv(RSub(R(last.y), last.cam.y), last.cam.zoom), camera.zoom),
                camera.y) = R(last.y)

-----------------------------------------------------------------------------
(* The effects: auto-fit and scroll to the cursor node.                    *)

\* The size of the viewport changed by more than 50 pixels on some axis.
SizeChangedByMoreThan50 ==
    \/ Abs(size'.width - size.width) > 50
    \/ Abs(size'.height - size.height) > 50

\* The kind and the number of children of the root changed.
RootSignatureChanged ==
    \/ ast'.kind # ast.kind
    \/ Len(ast'.children[1]) # Len(ast.children[1])

\* C16: the auto-fit effect sets the camera only in a commit that is the
\* first with a non-zero viewport, or changes the kind or the number of
\* children of the root, or changes the width or the height of the viewport
\* by more than 50 pixels; a commit that changes the expanded set alone
\* never has the auto-fit effect set the camera.
C16_AutoFitOnlyWhen ==
    [][ /\ last'.fit =>
            \/ (prevSizeRef = NoSize /\ size'.width # 0 /\ size'.height # 0)
            \/ RootSignatureChanged
            \/ SizeChangedByMoreThan50
        /\ (expandedNodes' # expandedNodes /\ ast' = ast /\ size' = size) =>
            ~last'.fit
      ]_vars

\* A click toggled a node and the auto-fit effect left the camera alone.
C16_Witness ==
    /\ last.op \in {"pointerup", "touchend"}
    /\ Len(emitted) > 0 /\ emitted[Len(emitted)].cb = "toggle"
    /\ ~last.fit
    /\ camera = last.cam

\* A step whose commit runs the scroll effect with the cursor node among the
\* visible nodes: the cursor node, the layout or the size changed.
ScrollStep ==
    /\ \/ last'.op \in {"resize", "reparse", "cursor"}
       \/ /\ last'.op \in {"pointerup", "touchend"}
          /\ allNodes' # allNodes
    /\ cursorNodePath' # NoNode
    /\ size'.width # 0
    /\ \E i \in 1..Len(allNodes') : allNodes'[i].id = cursorNodePath'

\* The screen rectangle of node n under camera cam.
ScreenRect(n, cam) ==
    [ left   |-> RAdd(RMul(n.x, cam.zoom), cam.x),
      right  |-> RAdd(RMul(Right(n), cam.zoom), cam.x),
      top    |-> RAdd(RMul(R(n.y), cam.zoom), cam.y),
      bottom |-> RAdd(RMul(R(n.y + n.height), cam.zoom), cam.y) ]

\* Rectangle r lies at least m pixels inside every edge of a viewport sz.
WithinMargins(r, sz, m) ==
    /\ RLe(R(m), r.left) /\ RLe(r.right, R(sz.width - m))
    /\ RLe(R(m), r.top)  /\ RLe(r.bottom, R(sz.height - m))

\* Rectangle r is no larger than the viewport sz less a margin m on both
\* sides.
FitsBetweenMargins(r, sz, m) ==
    /\ RLe(R(0), RSub(r.right, r.left))
    /\ RLe(RSub(r.right, r.left), R(sz.width - 2 * m))
    /\ RLe(R(0), RSub(r.bottom, r.top))
    /\ RLe(RSub(r.bottom, r.top), R(sz.height - 2 * m))

\* The camera the scroll effect's translation is added to: the one the
\* auto-fit effect set in the same commit, else the one before the commit.
CameraBeforeScroll ==
    IF last'.fit THEN fitCamera(size', treeBoundsOf(allNodes')) ELSE camera

\* C17: after a commit in which the scroll effect runs for the cursor node,
\* the screen rectangle of the node lies at least 80 pixels inside every
\* edge of the viewport, provided it is no larger than the viewport less
\* both margins, also when the auto-fit effect sets the camera in the same
\* commit; the zoom is the one the commit would have without the scroll
\* effect, and the camera is that camera unchanged when the node is within
\* the margins already.
C17_ScrollIntoView ==
    [][ ScrollStep =>
          LET n == allNodes'[findById(allNodes', cursorNodePath')]
              after == ScreenRect(n, camera')
              before == ScreenRect(n, CameraBeforeScroll)
          IN  /\ FitsBetweenMargins(after, size', SCROLL_MARGIN)
                   => WithinMargins(after, size', SCROLL_MARGIN)
              /\ camera'.zoom = CameraBeforeScroll.zoom
              /\ WithinMargins(before, size', SCROLL_MARGIN)
                   => camera' = CameraBeforeScroll
      ]_vars

\* The camera is the one auto-fit or fit-to-view computed: the last event was
\* fit-to-view, or the last commit set the camera by auto-fit and there was
\* no cursor node for the scroll effect to bring into view after it.
FitCameraStands == last.op = "fitToView" \/ (last.fit /\ cursorNodePath = NoNode)

\* The bounding box of the laid-out tree on the screen: the world rectangle
\* from (0, 0) to the greatest x + width and y + height, under the camera.
TreeScreenBox ==
    LET treeWidth  == RGreatest({ Right(n) : n \in Nodes })
        treeHeight == RGreatest({ R(n.y + n.height) : n \in Nodes })
        x0 == camera.x
        x1 == RAdd(RMul(treeWidth, camera.zoom), camera.x)
        y0 == camera.y
        y1 == RAdd(RMul(treeHeight, camera.zoom), camera.y)
    IN  [ left |-> RMin(x0, x1), right  |-> RMax(x0, x1),
          top  |-> RMin(y0, y1), bottom |-> RMax(y0, y1) ]

\* C18: after auto-fit or fit-to-view, with any non-zero viewport and any
\* tree, the bounding box of the tree on the screen lies inside the viewport
\* inset by 60 pixels on every side, and its left margin equals its right
\* margin.
C18_FitInsidePadding ==
    FitCameraStands =>
        /\ WithinMargins(TreeScreenBox, size, 60)
        /\ TreeScreenBox.left = RSub(R(size.width), TreeScreenBox.right)

-----------------------------------------------------------------------------
(* Collapsed nodes and rows of leaves.                                     *)

\* The number of children of the source node of layout node n.
SourceChildCount(n) == Len(ast.children[n.node])

\* The width buildLayoutTree gives a node with the room for a badge.
WidthWithBadge(n) ==
    Max(MIN_NODE_W,
        ast.textWidth[n.node] + 2 * NODE_PADDING_X + BadgeTextWidth + 8)

\* C19: a layout node is drawn with the badge '+N', N being the number of
\* children of its source node, iff its path is not in the expanded set and
\* its source node has at least one child; it then has no layout children,
\* no node of its subtrees is in the layout, and it is as wide as a node with
\* a badge; a node whose source node has no children has no badge, whether
\* or not its path is in the expanded set.
C19_CollapsedBadge ==
    \A n \in Nodes :
        LET marked == collapsedBadge(ast, n) # <<>>
        IN  /\ marked <=> (n.id \notin expandedNodes /\ SourceChildCount(n) >= 1)
            /\ marked =>
                 /\ collapsedBadge(ast, n) = <<SourceChildCount(n)>>
                 /\ n.children = <<>>
                 /\ \A m \in Nodes : IsPrefix(n.id, m.id) => m = n
                 /\ n.width = WidthWithBadge(n)
            /\ SourceChildCount(n) = 0 => ~marked

\* A collapsed node with two source children next to a leaf whose path is in
\* the expanded set.
C19_Witness ==
    /\ \E n \in Nodes :
          /\ collapsedBadge(ast, n) = <<2>>
          /\ n.children = <<>>
    /\ \E n \in Nodes :
          /\ SourceChildCount(n) = 0
          /\ n.id \in expandedNodes
          /\ collapsedBadge(ast, n) = <<>>

\* The visible children of n, in document order.
ChildNodes(n) == [i \in 1..Len(n.children) |-> NodeById(n.children[i])]

\* n has visible children and none of them has visible children.
ParentOfLeafRow(n) ==
    /\ Len(n.children) > 0
    /\ \A i \in 1..Len(n.children) : ChildNodes(n)[i].children = <<>>

\* C20: the visible children of a node whose visible children all have no
\* visible children stand left to right in document order, each 24 to the
\* right of the right edge of the one before: child[i+1].x = child[i].x +
\* child[i].width + 24; the centre of the parent is the centre of the row,
\* from the left edge of the first child to the right edge of the last.
C20_LeafRow ==
    \A n \in Nodes :
        ParentOfLeafRow(n) =>
            LET c == ChildNodes(n)
                k == Len(c)
            IN  /\ \A i \in 1..(k - 1) :
                       c[i + 1].x = RAdd(c[i].x, R(c[i].width + 24))
                /\ Centre(n) = RDiv(RAdd(c[1].x, Right(c[k])), R(2))

\* A node that is not the root stands over a row of three childless nodes of
\* which the first and the last differ in width.
C20_Witness ==
    \E n \in Nodes :
        /\ ParentOfLeafRow(n)
        /\ n.depth > 0
        /\ Len(n.children) >= 3
        /\ ChildNodes(n)[1].width # ChildNodes(n)[Len(n.children)].width

\* C21: a node with exactly one visible child has the horizontal centre of
\* that child, whatever the two widths and whatever its place among its own
\* siblings.
C21_OnlyChildCentred ==
    \A n \in Nodes :
        Len(n.children) = 1 => Centre(n) = Centre(NodeById(n.children[1]))

\* A node that has a left sibling stands over its only visible child, which
\* is wider than it.
C21_Witness ==
    \E n \in Nodes :
        /\ Len(n.children) = 1
        /\ n.number > 1
        /\ NodeById(n.children[1]).width > n.width

-----------------------------------------------------------------------------
(* Lookups by path.                                                        *)

\* Paths of up to MaxPathLen characters.
MaxPathLen == 5
PathChars == {"-", "0", "1", "2", "a", "+"}
PathInputs == UNION { [1..n -> PathChars] : n \in 0..MaxPathLen }

InitPaths == \E A \in ViewAsts : Mounted(A)
NextPaths == call = NoCall /\ \E path \in PathInputs : GetNodeByPath(path)
SpecPaths == InitPaths /\ [][NextPaths]_vars

\* str is a decimal numeral: one digit or more and nothing else.
IsNumeral(str) == Len(str) > 0 /\ \A i \in 1..Len(str) : str[i] \in Digits

RECURSIVE NumeralValue(_)
NumeralValue(str) ==
    IF Len(str) = 0 THEN 0
    ELSE 10 * NumeralValue(SubSeq(str, 1, Len(str) - 1)) + DigitValue(str[Len(str)])

\* Walking the index segments segs from source node a meets a segment that
\* is not a numeral, or an index that is not below the number of children at
\* its level.
RECURSIVE WalkFails(_, _)
WalkFails(segs, a) ==
    /\ Len(segs) > 0
    /\ \/ ~IsNumeral(segs[1])
       \/ NumeralValue(segs[1]) >= Len(ast.children[a])
       \/ WalkFails(Tail(segs), ast.children[a][NumeralValue(segs[1]) + 1])

\* C22: getNodeByPath returns null for every path that has an index segment
\* that is not numeric, or an index greater than or equal to the number of
\* children at its level.
C22_BadPathNotFound ==
    call.fn = "getNodeByPath" =>
        (WalkFails(Tail(split(call.path, "-")), 1) => call.result = 0)

-----------------------------------------------------------------------------
(* The highlight in the editor.                                            *)

\* Documents of up to MaxDocLen characters, offsets from OffsetMargin before
\* the document to OffsetMargin after the end of the longest.
OffsetMargin == 3
Offsets == (0 - OffsetMargin)..(MaxDocLen + OffsetMargin)

RangeValues ==
    {NoRange} \cup { [null |-> FALSE, from |-> f, to |-> t] : f, t \in Offsets }

InitHighlight == Mounted(AstOf(<<1, 1>>, <<20, 20, 152>>))
NextHighlight ==
    \E value \in RangeValues : \E docLength \in 0..MaxDocLen :
        SetHighlight(value, docLength)
SpecHighlight == InitHighlight /\ [][NextHighlight]_vars

\* x limited to lo..hi.
Clamp(x, lo, hi) == IF x < lo THEN lo ELSE IF x > hi THEN hi ELSE x

\* C23: after a highlight request (from, to) on a document of length L the
\* highlight is empty or the one range [a, b] with 0 <= a < b <= L, where
\* a = clamp(from, 0, L) and b is the greater of a and min(to, L); it is
\* empty after a null request and when a = b.
C23_HighlightClamped ==
    call.fn = "setHighlight" =>
        LET L == call.docLength
            a == Clamp(call.value.from, 0, L)
            b == IF Min(call.value.to, L) > a THEN Min(call.value.to, L) ELSE a
        IN  /\ Len(decorations) <= 1
            /\ \A i \in 1..Len(decorations) :
                  /\ 0 <= decorations[i].from
                  /\ decorations[i].from < decorations[i].to
                  /\ decorations[i].to <= L
            /\ IF call.value.null \/ a = b
               THEN decorations = <<>>
               ELSE decorations = <<[from |-> a, to |-> b]>>

\* A request that began before the document and ended after it left the
\* whole document highlighted.
C23_Witness ==
    /\ call.fn = "setHighlight"
    /\ ~call.value.null
    /\ call.value.from < 0 /\ call.value.to > call.docLength
    /\ decorations = <<[from |-> 0, to |-> call.docLength]>>

-----------------------------------------------------------------------------
(* The debounced cursor.                                                   *)

Positions(A) == AstPaths(A) \cup {NoNode}

InitDebounce ==
    Observed(AstOf(<<1, 1>>, <<20, 20, 152>>), [width |-> 400, height |-> 300])
NextDebounce ==
    \/ Tick
    \/ \E position \in Positions(ast) : HandleCursorChange(position)
    \/ \E t \in timers : \E explorer \in BOOLEAN : \E range \in NodeRanges :
          CursorTimeout(t, explorer, range)
SpecDebounce == InitDebounce /\ [][NextDebounce]_vars

\* The notifications i that were followed by the next one in less than
\* DebounceMs.
Superseded ==
    { i \in 1..(Len(notified) - 1) : notified[i + 1].at - notified[i].at < DebounceMs }

\* C24: at most one lookup timer is pending at any time, and a notification
\* that is followed by another in less than 50ms never results in a tree
\* lookup; no notification results in two lookups.
C24_Debounced ==
    /\ Cardinality(timers) <= 1
    /\ \A k \in 1..Len(lookups) :
          /\ lookups[k].id \notin Superseded
          /\ lookups[k].position = notified[lookups[k].id].position
          /\ \A j \in 1..Len(lookups) : lookups[j].id = lookups[k].id => j = k

\* A burst of three notifications of different positions, then the one lookup,
\* of the last position.
C24_Witness ==
    /\ Len(notified) = 3
    /\ Superseded = {1, 2}
    /\ notified[1].position # notified[3].position
    /\ notified[2].position # notified[3].position
    /\ timers = {}
    /\ Len(lookups) = 1
    /\ lookups[1].position = notified[3].position

-----------------------------------------------------------------------------
(* Toggling a node.                                                        *)

\* The paths of the nodes of A and one path that names no node.
TogglePaths(A) == AstPaths(A) \cup {<<0, 0, 0, 0, 0, 0>>}

ToggleAsts == ViewAsts \cup { AstOf(<<1, 2, 2>>, <<20, 20, 20, 152>>) }

InitToggle == \E A \in ToggleAsts : Mounted(A)
NextToggle == \E path \in TogglePaths(ast) : ToggleExpand(path)
SpecToggle == InitToggle /\ [][NextToggle]_vars

\* C25: toggling a path flips the membership of exactly that path in the
\* expanded set and leaves every other path as it was; toggling the same
\* path again gives the original set back.
C25_ToggleFlipsOne ==
    [][ call'.fn = "toggleNode" =>
          LET p == call'.path
          IN  /\ (p \in expandedNodes') # (p \in expandedNodes)
              /\ expandedNodes' \ {p} = expandedNodes \ {p}
              /\ toggleNode(expandedNodes', p) = expandedNodes ]_vars

\* A path that was expanded when the tree was parsed has been collapsed,
\* one that was not has been expanded, and the last toggle removed a path.
C25_Witness ==
    /\ call.fn = "toggleNode"
    /\ call.path \notin expandedNodes
    /\ \E q \in initialExpanded(ast) : q \notin expandedNodes
    /\ \E q \in expandedNodes : q \notin initialExpanded(ast)

-----------------------------------------------------------------------------
(* The distribution of shifts among siblings.                              *)

\* The layout tree before the first walk.
FreshTree == buildLayoutTree(ast, 1, root, expandedNodes, 0, NoNode)

\* The tree when the first walk of v has placed v's children and is about to
\* call executeShifts(v).  The first walk of a subtree reads and writes only
\* the nodes of that subtree.
BeforeShifts(v) == firstWalkChildren(FreshTree, v, 1, FreshTree[v].children[1])

\* executeShifts(v) leaves the first child of v where it was.
FirstChildStays(v) ==
    \E before \in {BeforeShifts(v)} :
        executeShifts(before, v)[before[v].children[1]].prelim
            = before[before[v].children[1]].prelim

\* C26: executeShifts never moves a node's first child (the subtree wl that
\* pushed a later sibling right, and every sibling left of wl, stay where
\* they were).
C26_FirstChildStays ==
    \A v \in DOMAIN FreshTree :
        Len(FreshTree[v].children) > 0 => FirstChildStays(v)

-----------------------------------------------------------------------------
(* A tap with one finger.                                                  *)

\* A point just inside the left edge of the root as the view first shows it
\* 400 wide, a point 2 right of it and 3 below, and a point in the middle of
\* the root.
TapPoints == { <<174, 70>>, <<176, 73>>, <<200, 70>> }

InitTap ==
    Observed(AstOf(<<1, 2>>, <<20, 20, 20>>), [width |-> 400, height |-> 300])
NextTap ==
    \/ \E p \in TapPoints : TouchStart(<<p>>)
    \/ \E p \in TapPoints : TouchDrag(p[1], p[2])
    \/ \E p \in TapPoints : PointerMove(p[1], p[2])
    \/ \E p \in TapPoints : PointerUp(p[1], p[2])
    \/ PointerUpIdle
    \/ TouchEnd(0)
SpecTap == InitTap /\ [][NextTap]_vars

\* One finger is down, its press is recorded with moved = false, and since
\* the touchstart there has been at most one move of the finger.
TapHeld ==
    /\ fingers = 1
    /\ ~dragRef.null
    /\ ~dragRef.moved
    /\ \/ last.op = "touchstart"
       \/ last.op \in {"touchmove", "pointermove"} /\ steps = 2

\* The point where the finger is.
FingerAt ==
    IF last.op = "touchstart" THEN <<dragRef.startX, dragRef.startY>>
    ELSE <<last.x, last.y>>

\* The release of the tap, by the handler that runs first: pointerup at the
\* point where the finger is, or touchend.
TapReleaseStep ==
    /\ TapHeld
    /\ steps' = steps + 1
    /\ \/ last'.op = "pointerup" /\ <<last'.x, last'.y>> = FingerAt
       \/ last'.op = "touchend" /\ fingers' = 0

\* The node that was under the finger when it touched the canvas; 0 if none.
TappedNode ==
    TopNodeAt(allNodes,
              [camera EXCEPT !.x = dragRef.startCamX, !.y = dragRef.startCamY],
              dragRef.startX, dragRef.startY)

\* C27: a single-finger tap on a node with children gives exactly one
\* toggle-expand callback, for that node, from the handler that runs first,
\* be it pointerup or touchend; the handler that runs second finds no press
\* recorded and calls nothing.
C27_TapTogglesOnce ==
    [][ /\ TapReleaseStep /\ TappedNode # 0 /\ SourceChildren(TappedNode)
            => emitted' \in { <<Callback("toggle", allNodes[TappedNode].id)>>,
                              <<Callback("hover", allNodes[TappedNode].id),
                                Callback("toggle", allNodes[TappedNode].id)>> }
        /\ dragRef.null /\ steps' = steps + 1 /\ last'.op \in {"pointerup", "touchend"}
            => emitted' = <<>> /\ dragRef'.null
      ]_vars

-----------------------------------------------------------------------------
(* A click does not pan.                                                   *)

\* C28: a move of the pointer or of the finger that leaves the press a click
\* (moved = false: at most 3px from the press in both axes) leaves the
\* camera where it was at press.
C28_ClickKeepsCamera ==
    [][ DragMoveStep /\ ~dragRef'.moved =>
          /\ camera'.x = dragRef.startCamX
          /\ camera'.y = dragRef.startCamY ]_vars

-----------------------------------------------------------------------------
(* A viewport that changes size little by little.                          *)

\* Widths 40 apart, at one height.
CreepWidths == { 360, 400, 440, 480, 520 }
CreepHeight == 300
CreepSize(w) == [width |-> w, height |-> CreepHeight]

InitCreep == \E A \in ViewAsts : \E w \in CreepWidths : Observed(A, CreepSize(w))
NextCreep == \E w \in CreepWidths : Resize(w, CreepHeight)
SpecCreep == InitCreep /\ [][NextCreep]_vars

\* The camera is the one an auto-fit sets in a viewport of size s.
FittedTo(s) == camera = fitCamera(s, treeBoundsOf(allNodes))

\* C29: the camera is never the fit of a viewport that differs by more than
\* 50px from the present one: a series of resizes that moves the size more
\* than 50px from the size of the last auto-fit brings a new auto-fit.
C29_NeverFittedToFarSize ==
    \A w \in CreepWidths :
        FittedTo(CreepSize(w)) => Abs(w - size.width) <= 50

-----------------------------------------------------------------------------
(* The parse result displayed.                                             *)

InitParse ==
    Observed(ParseTree("sample rust", "rust"), [width |-> 400, height |-> 300])
NextParse ==
    \/ \E l \in Languages : HandleLanguageChange(l)
    \/ \E c \in Codes : HandleCodeChange(c)
    \/ \E r \in parsing : LanguageLoaded(r)
SpecParse == InitParse /\ [][NextParse]_vars

\* C30: once no parse is under way, the result displayed is the result of
\* the present code and language: a parse started earlier never replaces
\* the result of one started later.
C30_LatestParseShown ==
    parsing = {} =>
        /\ parseResult = [code |-> code, language |-> language]
        /\ ast = ParseTree(code, language)

-----------------------------------------------------------------------------
(* The hovered node.                                                       *)

\* C31: every node-hover callback the view emits, from a move of the mouse
\* or from a tap, is recorded in hoveredRef as the hovered node, so that the
\* next move over empty space emits the leave callback.
C31_HoverRecorded ==
    [][ steps' = steps + 1 =>
          \A i \in 1..Len(emitted') :
              emitted'[i].cb = "hover" => hoveredRef' = emitted'[i].path ]_vars

-----------------------------------------------------------------------------
(* The expansion that follows the cursor.                                  *)

\* A step in which a timeout of the cursor ran and its lookup gave a node
\* other than the cursor node.
CursorMovedStep ==
    /\ Len(lookups') = Len(lookups) + 1
    /\ lookups'[Len(lookups')].position # NoNode
    /\ lookups'[Len(lookups')].position # cursorNodePath

\* C32: after the debounced lookup gave a path P other than the cursor path,
\* the expanded set holds P and the paths of its ancestors and nothing else,
\* P is the cursor path, and P is among the nodes laid out.
C32_ExpandedIsChainToCursor ==
    [][ CursorMovedStep =>
          LET P == lookups'[Len(lookups')].position
          IN  /\ cursorNodePath' = P
              /\ \A q \in expandedNodes' \cup AstPaths(ast) :
                    q \in expandedNodes' <=> IsPrefix(q, P)
              /\ \E i \in 1..Len(allNodes') : allNodes'[i].id = P ]_vars

\* The cursor went to a child of the root, and the other child of the root,
\* expanded since the parse, is collapsed.
C32_Witness ==
    /\ Len(lookups) > 0
    /\ Len(cursorNodePath) = 1
    /\ cursorNodePath = lookups[Len(lookups)].position
    /\ cursorNodePath \in expandedNodes
    /\ \E q \in initialExpanded(ast) : q \notin expandedNodes

-----------------------------------------------------------------------------
(* The node at a position.                                                 *)

MaxRow == 1          \* nodes lie in rows 0..MaxRow
MaxCol == 2          \* and in columns 0..MaxCol
MaxRangeNodes == 3   \* nodes of a positioned tree

TreePositions == (0..MaxRow) \X (0..MaxCol)

\* p is at or before q in the document.
PosLe(p, q) == p[1] < q[1] \/ (p[1] = q[1] /\ p[2] <= q[2])

\* The trees a parser gives: a node ends at or after its start, children lie
\* within their parent, and a sibling starts at or after the end of the one
\* before.
PositionedTrees(n) ==
    { T \in { [ children |-> AstOf(par, [a \in 1..n |-> 0]).children,
                startPosition |-> sp, endPosition |-> ep ] :
                par \in ParentLists(n),
                sp \in [1..n -> TreePositions], ep \in [1..n -> TreePositions] } :
        /\ \A a \in 1..n : PosLe(T.startPosition[a], T.endPosition[a])
        /\ \A a \in 1..n : \A i \in 1..Len(T.children[a]) :
              /\ PosLe(T.startPosition[a], T.startPosition[T.children[a][i]])
              /\ PosLe(T.endPosition[T.children[a][i]], T.endPosition[a])
              /\ i > 1 => PosLe(T.endPosition[T.children[a][i - 1]],
                                T.startPosition[T.children[a][i]]) }

InitPositions == \E A \in ViewAsts : Mounted(A)
NextPositions ==
    /\ call = NoCall
    /\ \E n \in 1..MaxRangeNodes : \E T \in PositionedTrees(n) :
          \E row \in 0..(MaxRow + 1) : \E col \in 0..(MaxCol + 1) :
              FindNodeAtPosition(T, row, col)
SpecPositions == InitPositions /\ [][NextPositions]_vars

\* The position lies in the inclusive range of node a.
Contains(T, a, pos) == PosLe(T.startPosition[a], pos) /\ PosLe(pos, T.endPosition[a])

\* The node of T with path p.
NodeWithPath(T, p) == CHOOSE a \in DOMAIN T.children : AstPath(T, a) = p

\* C33: findNodeAtPosition returns null iff the position is outside the
\* root's inclusive range; otherwise it returns the path of a node that
\* contains the position while none of its children does, reached from the
\* root through the first child that contains the position at each level.
C33_DeepestNodeAtPosition ==
    call.fn = "findNodeAtPosition" =>
        LET T == call.tree
            pos == <<call.row, call.col>>
        IN  /\ call.result = NoNode <=> ~Contains(T, 1, pos)
            /\ call.result # NoNode =>
                  /\ call.result \in AstPaths(T)
                  /\ Contains(T, NodeWithPath(T, call.result), pos)
                  /\ \A i \in 1..Len(T.children[NodeWithPath(T, call.result)]) :
                        ~Contains(T, T.children[NodeWithPath(T, call.result)][i], pos)
                  /\ \A k \in 1..Len(call.result) :
                        LET parent == NodeWithPath(T, SubSeq(call.result, 1, k - 1))
                            index == call.result[k] + 1
                        IN  /\ Contains(T, T.children[parent][index], pos)
                            /\ \A j \in 1..(index - 1) :
                                  ~Contains(T, T.children[parent][j], pos)

\* The position is where the first child of the root ends and the second
\* begins, and the first child was returned.
C33_Witness ==
    /\ call.fn = "findNodeAtPosition"
    /\ Len(call.tree.children[1]) = 2
    /\ call.tree.endPosition[2] = <<call.row, call.col>>
    /\ call.tree.startPosition[3] = <<call.row, call.col>>
    /\ call.result = <<0>>

-----------------------------------------------------------------------------
(* The parser: one initialisation, and parse never rejects.                *)

ParseLanguages == {"rust", "python", "cobol"}

InitParser == ViewMounted(AstOf(<<1, 1>>, <<20, 20, 152>>)) /\ AppConstructed
NextParser ==
    \/ CallInit
    \/ \E ok \in BOOLEAN : InitSettles(ok)
    \/ \E lang \in ParseLanguages : ParseCall(lang)
    \/ \E i \in 1..Len(parses) : \E throws \in BOOLEAN : ParseAfterInit(i, throws)
    \/ \E i \in 1..Len(parses) : \E ok, throws \in BOOLEAN : LoadSettles(i, ok, throws)
SpecParser == InitParser /\ [][NextParser]_vars

\* What the caller k of init() observes.
Observes(k) == IF callers[k] = "done" THEN "fulfilled" ELSE initPromise

\* C34: however many calls of init() there are, Parser.init is called at
\* most once and at most one parser is constructed; the callers that arrive
\* during the initialisation get its promise, and all callers observe the
\* same outcome: none completes before the parser is there, and none is told
\* of a failure while another completes.
C34_InitOnce ==
    /\ performed.init <= 1
    /\ performed.parser <= 1
    /\ parser <=> performed.parser = 1
    /\ \A k \in 1..Len(callers) :
          /\ Observes(k) \in {"pending", "fulfilled", "rejected"}
          /\ Observes(k) = "fulfilled" <=> parser
          /\ \A j \in 1..Len(callers) : Observes(j) = Observes(k)

\* Three calls of init() came before the initialisation ended, and it has
\* ended.
C34_Witness ==
    /\ Len(callers) >= 3
    /\ \A k \in 1..3 : callers[k] = "promise"
    /\ parser
    /\ performed = [init |-> 1, parser |-> 1]

\* C35: parse never rejects.  A call that has ended has resolved, either to
\* a result with success, an ast and no error, or to one without success,
\* without ast and with an error message; for a language that is not
\* supported it is the second.
C35_ParseNeverRejects ==
    \A i \in 1..Len(parses) :
        /\ parses[i].result.settled # "rejected"
        /\ parses[i].pc = "done" =>
              LET r == parses[i].result
              IN  /\ r.settled = "resolved"
                  /\ r.language = parses[i].language
                  /\ IF r.success THEN r.ast /\ r.error = ""
                     ELSE ~r.ast /\ r.error # ""
                  /\ parses[i].language \notin Supported => ~r.success

\* One call failed because the language is not supported and another gave a
\* tree.
C35_Witness ==
    /\ \E i \in 1..Len(parses) :
          /\ parses[i].pc = "done"
          /\ parses[i].language \notin Supported
          /\ parses[i].result.error = "Unsupported language"
    /\ \E i \in 1..Len(parses) : parses[i].pc = "done" /\ parses[i].result.success

-----------------------------------------------------------------------------
(* Paths name nodes.                                                       *)

MaxPathNodes == 5    \* nodes of the trees of every shape
WideChildren == 11   \* children of the root of the wide tree

\* Every tree shape of up to MaxPathNodes nodes, and a root with
\* WideChildren children, the last of them with a child of its own.
RoundTripAsts ==
    { AstOf(par, [a \in 1..(Len(par) + 1) |-> 20]) :
          par \in UNION { ParentLists(n) : n \in 1..MaxPathNodes } }
    \cup { AstOf([a \in 1..(WideChildren + 1) |-> IF a <= WideChildren THEN 1
                                                   ELSE WideChildren + 1],
                 [a \in 1..(WideChildren + 2) |-> 20]) }

InitRoundTrip == \E A \in RoundTripAsts : Mounted(A)
NextRoundTrip == call = NoCall /\ \E node \in DOMAIN ast.children : ResolvePathOf(node)
SpecRoundTrip == InitRoundTrip /\ [][NextRoundTrip]_vars

\* C36: the path the traversal gives a node ('root', then the zero-based
\* index of the child at each level, joined by '-') is resolved by
\* getNodeByPath to that node, and no other node has the same path.
C36_PathRoundTrip ==
    call.fn = "resolvePath" =>
        /\ call.result = call.node
        /\ \A e \in traverse(ast, 1, RootString) :
              e[2] = call.path => e[1] = call.node

\* The path 'root-10-0' was resolved: an index of two digits, then one more
\* level.
C36_Witness ==
    /\ call.fn = "resolvePath"
    /\ call.path = RootString \o <<"-", "1", "0", "-", "0">>
    /\ call.result = call.node

-----------------------------------------------------------------------------
(* The 'all expanded' flag and the expanded set.                           *)

InitExpandAll ==
    Observed(ParseTree("sample rust", "rust"), [width |-> 400, height |-> 300])
NextExpandAll ==
    \/ ToggleExpandCollapseAll
    \/ \E path \in AstPaths(ast) : ToggleExpand(path)
    \/ \E c \in {SampleCode("rust"), "edited"} : HandleCodeChange(c)
    \/ now < DebounceMs /\ Tick
    \/ /\ now = 0
       /\ notified = <<>>
       /\ \E position \in Positions(ast) : HandleCursorChange(position)
    \/ \E t \in timers : CursorTimeout(t, FALSE, NoRange)
SpecExpandAll == InitExpandAll /\ [][NextExpandAll]_vars

\* C37: whenever isAllExpanded is true, the expanded set contains the path
\* of every node of the current tree.
C37_AllExpandedFlagAgrees ==
    isAllExpanded => AstPaths(ast) \subseteq expandedNodes

-----------------------------------------------------------------------------
(* Releasing a drag of the bottom sheet.                                   *)

\* clientY of the touches, and the heights of the window.
SheetYs == {0, 232, 233, 400, 680, 681}
WindowHeights == {DefaultWindowHeight, 667}

\* One finger at a time: a drag starts when none is going on.
InitSheet == Mounted(AstOf(<<1, 1>>, <<20, 20, 152>>))
NextSheet ==
    \/ PillClick
    \/ ~isDragging /\ \E clientY \in SheetYs : HandleTouchStart(clientY)
    \/ \E clientY \in SheetYs : HandleTouchMove(clientY)
    \/ HandleTouchEnd
    \/ HandleHandleTap
    \/ \E innerHeight \in WindowHeights : WindowResize(innerHeight)
SpecSheet == InitSheet /\ [][NextSheet]_vars

\* The snap point nearest to the height h in a window of height w:
\* 'collapsed' below 15% of w, else 'half' up to the middle between 50% and
\* 92% of w (71%), else 'full'.
SnapFor(h, w) ==
    IF 100 * h[1] < 15 * w * h[2] THEN "collapsed"
    ELSE IF 100 * h[1] <= 71 * w * h[2] THEN "half"
    ELSE "full"

\* The height of a snap point, in whole pixels.
HeightOf(s, w) ==
    IF s = "collapsed" THEN 0
    ELSE IF s = "half" THEN (w + 1) \div 2
    ELSE (92 * w + 50) \div 100

\* C38: after the release of a drag the snap point is 'collapsed' when the
\* dragged height was below 15% of the window height, and otherwise 'half'
\* or 'full', whichever is nearer, a tie going to 'half'; the height of the
\* sheet is the height of that snap point and the drag state is cleared.
C38_ReleaseSnaps ==
    (call.fn = "handleTouchEnd" /\ call.dragging) =>
        /\ snap = SnapFor(call.height, windowHeight)
        /\ currentHeight = R(HeightOf(snap, windowHeight))
        /\ dragState = NoDragState
        /\ ~isDragging

\* A drag was released at 568 pixels in a window of 800, as far from 'half'
\* (400) as from 'full' (736), and the sheet went to 'half'.
C38_Witness ==
    /\ call.fn = "handleTouchEnd"
    /\ call.dragging
    /\ call.height = R(568)
    /\ windowHeight = 800
    /\ snap = "half"
    /\ currentHeight = R(400)

=============================================================================
